---- MODULE Spec2Model ----
(***************************************************************************)
(* Model of craft_providers: the Multipass provider's compatibility-checked *)
(* instance lifecycle (MultipassProvider.setup / teardown), the instance    *)
(* handle it drives (MultipassInstance) and the backend those talk to.      *)
(*                                                                          *)
(* The backend (the multipass daemon) is modelled by the one VM the         *)
(* provider's instance_name addresses: it is Absent, Running or Stopped,    *)
(* carries the content of /etc/craft-image.conf and of /etc/os-release,     *)
(* and an identity that changes with every launch.  A backend command       *)
(* succeeds when the VM is in a state the command applies to; commands      *)
(* executed in a VM that is not running exit nonzero; a launch may be       *)
(* refused (quota, bad image).                                              *)
(*                                                                          *)
(* The source mixes revisions of the provider (arguments named for the LXD  *)
(* variant, force= for purge=): the model follows the control flow of the   *)
(* methods as written and binds each call to the method of that name.       *)
(***************************************************************************)
EXTENDS Naturals, Sequences, FiniteSets, TLC

\* Bound on the number of VM identities handed out (launches) in one run.
MaxLaunches == 3

\* ---------------------------------------------------------------- values
InstanceName == "itest"
None == "None"

ExpectedTag == "craft-buildd-image-v0"
OtherTag == "craft-buildd-image-vX"
NoTag == "absent"
Tags == {ExpectedTag, OtherTag}

ExpectedOs == "16.04"
OtherOs == "20.10"
OsVersions == {ExpectedOs, OtherOs}

AbsentVm == [status |-> "Absent", tag |-> NoTag, os |-> ExpectedOs, id |-> 0]

ExistingVms(ident) ==
  [status : {"Running", "Stopped"}, tag : Tags \cup {NoTag}, os : OsVersions, id : {ident}]

AutoCleanArgs == {"omitted", "True", "False"}

VARIABLES
  vm,              \* the backend's VM named InstanceName
  launches,        \* VM identities handed out so far
  auto_clean_arg,  \* the auto_clean argument given to MultipassProvider()
  auto_clean,      \* MultipassProvider.auto_clean
  instance,        \* MultipassProvider.instance (None or the handle)
  instance_stop_time_mins, \* MultipassProvider.instance_stop_time_mins
  op,              \* the last operation: arguments, backend calls, outcome
  prev,            \* the operation before it
  poll,            \* the current or last readiness poll (actions.linux)
  pred,            \* the last is_target_file / is_target_directory call
  sync,            \* the current or last directory sync (actions.linux)
  host_fs,         \* the host paths a sync reads or writes
  vm_fs,           \* the instance paths a sync reads or writes
  xfer,            \* the last sync_to / sync_from call and its outcome
  xprev,           \* the sync call before it
  cf,              \* the current or last create_file call, step by step
  installed,       \* the Multipass executable on the host (or none)
  install_op,      \* the last MultipassInstaller.install() call
  prompt,          \* the current or last input_prompt_bool call
  race,            \* two create_file calls at a time and the instance's files
  legacy,          \* the Multipass(Provider) session: instance, mounts, cache
  tio              \* the current or last transfer_from_io call

providerVars ==
  <<vm, launches, auto_clean_arg, auto_clean, instance, instance_stop_time_mins, op, prev>>

fileVars == <<host_fs, vm_fs, xfer, xprev, cf>>

installVars == <<installed, install_op, prompt>>

otherVars == <<race, legacy, tio>>

actionVars == <<poll, pred, sync, fileVars, installVars, otherVars>>

vars == <<providerVars, actionVars>>

\* ------------------------------------------------------------ bookkeeping
Call(cmd, v) == [cmd |-> cmd, on |-> v.status, id |-> v.id]

NoOp ==
  [name |-> "none", clean |-> FALSE, outcome |-> "none", error |-> "none",
   reason |-> "", calls |-> <<>>, entry |-> AbsentVm, ret |-> None]

Returned(name, clean, calls, entry, ret) ==
  [name |-> name, clean |-> clean, outcome |-> "returned", error |-> "none",
   reason |-> "", calls |-> calls, entry |-> entry, ret |-> ret]

Raised(name, clean, calls, entry, error, reason) ==
  [name |-> name, clean |-> clean, outcome |-> "raised", error |-> error,
   reason |-> reason, calls |-> calls, entry |-> entry, ret |-> None]

\* instance_stop_time_mins as MultipassProvider() defaults it, and the values
\* a caller gives it in the model
DefaultStopTimeMins == 10

StopTimes == {0, DefaultStopTimeMins}

\* the time argument of Multipass.stop: left out (None) or a number of minutes
NoTime == [given |-> FALSE, mins |-> 0]

Time(mins) == [given |-> TRUE, mins |-> mins]

\* Multipass.stop builds ["stop", "--time", str(time), instance] when `time`
\* is truthy and ["stop", instance] otherwise
multipass_stop_command(time) ==
  IF time.given /\ time.mins # 0
    THEN [delayed |-> TRUE, time |-> time.mins]
    ELSE [delayed |-> FALSE, time |-> 0]

\* MultipassInstance.stop(): self.multipass.stop(instance_name=self.name),
\* logged with the stop request the backend receives
StopCall(v) ==
  [cmd |-> "stop", on |-> v.status, id |-> v.id,
   request |-> multipass_stop_command(NoTime)]

\* a launch is logged with the identity the new VM gets
Launching(v, ident) == [cmd |-> "launch", on |-> v.status, id |-> ident]

Cmds(calls) == [i \in 1..Len(calls) |-> calls[i].cmd]

Count(calls, cmd) == Cardinality({i \in 1..Len(calls) : calls[i].cmd = cmd})

\* ------------------------------------------------------ MultipassProvider
DefaultAutoClean == TRUE

ResolveAutoClean(arg) == IF arg = "omitted" THEN DefaultAutoClean ELSE arg = "True"

\* ------------------------------------------------------ MultipassInstance
exists(v) == v.status # "Absent"

is_running(v) == v.status = "Running"

\* a command executed in the VM exits 0 only if the VM is running
ExecSucceeds(v) == v.status = "Running"

\* Multipass.launch through MultipassInstance.launch: a new running VM made
\* from the image, or no VM at all when the backend refuses
launch(v, ident, imageTag) ==
  [status |-> "Running", tag |-> imageTag, os |-> ExpectedOs, id |-> ident]

\* Multipass.delete through MultipassInstance.delete (purge)
delete(v) == AbsentVm

\* Multipass.stop through MultipassInstance.stop (no delay given)
stop(v) == [v EXCEPT !.status = "Stopped"]

\* Multipass.start through MultipassInstance.start
start(v) == [v EXCEPT !.status = "Running"]

\* ------------------------------------------------------ actions.craft_config
\* what a caller sees when the read's CalledProcessError is not caught
ReadFailed == "CalledProcessError"

\* variant of load_craft_config without the except clause
load_craft_config_uncaught(v) ==
  IF ExecSucceeds(v) /\ v.tag # NoTag
    THEN [compatibility_tag |-> v.tag]
    ELSE [compatibility_tag |-> ReadFailed]

\* cat /etc/craft-image.conf with check=True: a nonzero exit (VM not running,
\* file absent) is caught and gives None, otherwise the parsed record
load_craft_config(v) ==
  IF ExecSucceeds(v) /\ v.tag # NoTag
    THEN [compatibility_tag |-> v.tag]
    ELSE [compatibility_tag |-> None]

\* create_file of /etc/craft-image.conf with the dumped record
save_craft_config(v, config) == [v EXCEPT !.tag = config.compatibility_tag]

\* ------------------------------------------------------------ actions.linux
\* variant of read_os_release whose caller gets VERSION instead of VERSION_ID
read_os_release_wrong_key(v) ==
  IF ExecSucceeds(v) THEN v.os \o " (Groovy Gorilla)" ELSE None

\* cat /etc/os-release with check=False, parsed; VERSION_ID of the result
read_os_release(v) == IF ExecSucceeds(v) THEN v.os ELSE None

\* ---------------------------------------------- images (negotiator, sec. 4.4)
TagReason(expected, found) ==
  "Expected image compatibility tag '" \o expected \o "', found '" \o found \o "'"

OsReason(expected, found) ==
  "Expected OS version '" \o expected \o "', found '" \o found \o "'"

NoMarkerReason == "no compatibility marker found"

Outcome(v, error, reason) == [vm |-> v, error |-> error, reason |-> reason]

\* variant of image_setup that checks the OS version before the tag
image_setup_os_first(v, fault) ==
  LET config == load_craft_config(v)
      version == read_os_release(v)
  IN  IF config.compatibility_tag = ReadFailed
        THEN Outcome(v, "CommandError", "")
      ELSE IF config.compatibility_tag = None
        THEN Outcome(v, "CompatibilityError", NoMarkerReason)
      ELSE IF version # ExpectedOs
        THEN Outcome(v, "CompatibilityError", OsReason(ExpectedOs, version))
      ELSE IF config.compatibility_tag # ExpectedTag
        THEN Outcome(v, "CompatibilityError", TagReason(ExpectedTag, config.compatibility_tag))
      ELSE IF fault
        THEN Outcome(v, "CommandError", "")
      ELSE Outcome(save_craft_config(v, [compatibility_tag |-> ExpectedTag]), "none", "")

\* image_configuration.setup(executor): the first failing gate is reported;
\* when both pass the marker is refreshed, and a failure of that write
\* (fault) is a command error, not an incompatibility; an error raised by
\* load_craft_config itself would pass through unchanged
image_setup(v, fault) ==
  LET config == load_craft_config(v)
      version == read_os_release(v)
  IN  IF config.compatibility_tag = ReadFailed
        THEN Outcome(v, "CommandError", "")
      ELSE IF config.compatibility_tag = None
        THEN Outcome(v, "CompatibilityError", NoMarkerReason)
      ELSE IF config.compatibility_tag # ExpectedTag
        THEN Outcome(v, "CompatibilityError", TagReason(ExpectedTag, config.compatibility_tag))
      ELSE IF version # ExpectedOs
        THEN Outcome(v, "CompatibilityError", OsReason(ExpectedOs, version))
      ELSE IF fault
        THEN Outcome(v, "CommandError", "")
      ELSE Outcome(save_craft_config(v, [compatibility_tag |-> ExpectedTag]), "none", "")

\* ------------------------------------------------- MultipassProvider.setup
Step(v, calls, error, reason) ==
  [vm |-> v, calls |-> calls, error |-> error, reason |-> reason]

\* variants of _setup_existing_instance with a plausible slip each
_setup_existing_instance_ignores_flag(v, autoClean, fault) ==
  LET r == image_setup(v, fault)
      ran == <<Call("negotiate", v)>>
  IN  IF r.error = "CompatibilityError"
        THEN Step(delete(r.vm), ran \o <<Call("delete", r.vm)>>, "none", "")
        ELSE Step(r.vm, ran, r.error, r.reason)

_setup_existing_instance_keeps(v, autoClean, fault) ==
  LET r == image_setup(v, fault)
      ran == <<Call("negotiate", v)>>
  IN  IF r.error = "CompatibilityError"
        THEN IF autoClean
               THEN Step(r.vm, ran, "none", "")
               ELSE Step(r.vm, ran, r.error, r.reason)
        ELSE Step(r.vm, ran, r.error, r.reason)

_setup_existing_instance_catches_all(v, autoClean, fault) ==
  LET r == image_setup(v, fault)
      ran == <<Call("negotiate", v)>>
  IN  IF r.error # "none"
        THEN IF autoClean
               THEN Step(delete(r.vm), ran \o <<Call("delete", r.vm)>>, "none", "")
               ELSE Step(r.vm, ran, r.error, r.reason)
        ELSE Step(r.vm, ran, r.error, r.reason)

\* try: image_configuration.setup  except CompatibilityError: delete if
\* auto_clean, else raise; any other error is not caught
_setup_existing_instance(v, autoClean, fault) ==
  LET r == image_setup(v, fault)
      ran == <<Call("negotiate", v)>>
  IN  IF r.error = "CompatibilityError"
        THEN IF autoClean
               THEN Step(delete(r.vm), ran \o <<Call("delete", r.vm)>>, "none", "")
               ELSE Step(r.vm, ran, r.error, r.reason)
        ELSE Step(r.vm, ran, r.error, r.reason)

LaunchReason == "Failed to launch VM '" \o InstanceName \o "'."

\* variant of _setup_instance that tests existence once, at entry
_setup_instance_stale_exists(v, autoClean, fault, refuse, ident, imageTag) ==
  LET first == IF exists(v)
                 THEN _setup_existing_instance(v, autoClean, fault)
                 ELSE Step(v, <<>>, "none", "")
  IN  IF first.error # "none"
        THEN first
      ELSE IF ~exists(v)
        THEN IF refuse
               THEN Step(first.vm, first.calls \o <<Launching(first.vm, ident)>>,
                         "MultipassError", LaunchReason)
               ELSE Step(launch(first.vm, ident, imageTag),
                         first.calls \o <<Launching(first.vm, ident)>>, "none", "")
      ELSE first

\* variant of _setup_instance that launches again after a refused launch
_setup_instance_retries_launch(v, autoClean, fault, refuse, ident, imageTag) ==
  LET first == IF exists(v)
                 THEN _setup_existing_instance(v, autoClean, fault)
                 ELSE Step(v, <<>>, "none", "")
  IN  IF first.error # "none"
        THEN first
      ELSE IF ~exists(first.vm)
        THEN IF refuse
               THEN Step(launch(first.vm, ident, imageTag),
                         first.calls \o <<Launching(first.vm, ident), Launching(first.vm, ident)>>,
                         "none", "")
               ELSE Step(launch(first.vm, ident, imageTag),
                         first.calls \o <<Launching(first.vm, ident)>>, "none", "")
      ELSE first

\* if exists: _setup_existing_instance;  if not exists: launch;  return
_setup_instance(v, autoClean, fault, refuse, ident, imageTag) ==
  LET first == IF exists(v)
                 THEN _setup_existing_instance(v, autoClean, fault)
                 ELSE Step(v, <<>>, "none", "")
  IN  IF first.error # "none"
        THEN first
      ELSE IF ~exists(first.vm)
        THEN IF refuse
               THEN Step(first.vm, first.calls \o <<Launching(first.vm, ident)>>,
                         "MultipassError", LaunchReason)
               ELSE Step(launch(first.vm, ident, imageTag),
                         first.calls \o <<Launching(first.vm, ident)>>, "none", "")
      ELSE first

\* ---------------------------------------------- MultipassProvider.teardown
\* variants of teardown with a plausible slip each
teardown_no_exists_check(v, inst, clean) ==
  IF inst = None
    THEN Step(v, <<>>, "none", "")
  ELSE LET stopped == IF is_running(v) THEN stop(v) ELSE v
           calls1 == IF is_running(v) THEN <<StopCall(v)>> ELSE <<>>
       IN  IF clean
             THEN Step(delete(stopped), calls1 \o <<Call("delete", stopped)>>, "none", "")
             ELSE Step(stopped, calls1, "none", "")

teardown_always_clean(v, inst, clean) ==
  IF inst = None
    THEN Step(v, <<>>, "none", "")
  ELSE IF ~exists(v)
    THEN Step(v, <<>>, "none", "")
  ELSE LET stopped == IF is_running(v) THEN stop(v) ELSE v
           calls1 == IF is_running(v) THEN <<StopCall(v)>> ELSE <<>>
       IN  Step(delete(stopped), calls1 \o <<Call("delete", stopped)>>, "none", "")

teardown_delete_first(v, inst, clean) ==
  IF inst = None
    THEN Step(v, <<>>, "none", "")
  ELSE IF ~exists(v)
    THEN Step(v, <<>>, "none", "")
  ELSE IF clean
    THEN Step(delete(v), <<Call("delete", v)>>, "none", "")
  ELSE LET stopped == IF is_running(v) THEN stop(v) ELSE v
           calls1 == IF is_running(v) THEN <<StopCall(v)>> ELSE <<>>
       IN  Step(stopped, calls1, "none", "")

teardown(v, inst, clean) ==
  IF inst = None
    THEN Step(v, <<>>, "none", "")
  ELSE IF ~exists(v)
    THEN Step(v, <<>>, "none", "")
  ELSE LET stopped == IF is_running(v) THEN stop(v) ELSE v
           calls1 == IF is_running(v) THEN <<StopCall(v)>> ELSE <<>>
       IN  IF clean
             THEN Step(delete(stopped), calls1 \o <<Call("delete", stopped)>>, "none", "")
             ELSE Step(stopped, calls1, "none", "")



\* ------------------------------------------------------------------ Executor
\* bounds of the inputs drawn for the executor and its actions
MaxExitCode == 2
MaxRetryCount == 3
MaxTimeoutSecs == 2

ExitCodes == 0..MaxExitCode

\* execute_run(self, command, check=True, **kwargs)
DefaultCheck == TRUE

\* the execute_run contract: CalledProcessError if the command fails and
\* check is True, else the completed process with its return code
execute_run(rc, check) == [raised |-> check /\ rc # 0, returncode |-> rc]

\* -------------------------------------------------- actions.linux: pollers
SystemStates == {"running", "degraded", "starting", "initializing"}

ReadyStates == {"running", "degraded"}

PollIdle ==
  [fn |-> "none", budget |-> 0, probes |-> <<>>, pc |-> "idle", warned |-> FALSE]

Probe(rc, state) == [rc |-> rc, state |-> state]

\* entering `for _ in range(n)`: with n = 0 the else clause runs at once
EnterLoop(fn, n) ==
  [fn |-> fn, budget |-> n, probes |-> <<>>,
   pc |-> IF n = 0 THEN "returned" ELSE "polling", warned |-> (n = 0)]

\* after sleep(): the next iteration, or the else clause (warning) when the
\* range is used up
AfterSleep(p, probes) ==
  IF Len(probes) = p.budget
    THEN [p EXCEPT !.probes = probes, !.pc = "returned", !.warned = TRUE]
    ELSE [p EXCEPT !.probes = probes]

\* variant of system_probe that runs the probe with the default check
system_probe_default_check(p, rc, state) ==
  LET proc == execute_run(rc, DefaultCheck)
      probes == Append(p.probes, Probe(rc, state))
  IN  IF proc.raised
        THEN [p EXCEPT !.probes = probes, !.pc = "raised"]
      ELSE IF proc.returncode = 0 /\ state \in ReadyStates
        THEN [p EXCEPT !.probes = probes, !.pc = "returned"]
      ELSE AfterSleep(p, probes)

\* one iteration of wait_for_system_ready: systemctl is-system-running with
\* check=False; break only on return code 0 with a ready state
system_probe(p, rc, state) ==
  LET proc == execute_run(rc, FALSE)
      probes == Append(p.probes, Probe(rc, state))
  IN  IF proc.raised
        THEN [p EXCEPT !.probes = probes, !.pc = "raised"]
      ELSE IF proc.returncode = 0 /\ state \in ReadyStates
        THEN [p EXCEPT !.probes = probes, !.pc = "returned"]
      ELSE AfterSleep(p, probes)

\* one iteration of wait_for_networking_ready: getent hosts with the default
\* check; break on return code 0
network_probe(p, rc) ==
  LET proc == execute_run(rc, DefaultCheck)
      probes == Append(p.probes, Probe(rc, "none"))
  IN  IF proc.raised
        THEN [p EXCEPT !.probes = probes, !.pc = "raised"]
      ELSE IF proc.returncode = 0
        THEN [p EXCEPT !.probes = probes, !.pc = "returned"]
      ELSE AfterSleep(p, probes)

\* ----------------------------------- Executor.is_target_file / _directory
PredIdle == [fn |-> "none", rc |-> 0, outcome |-> "none", value |-> FALSE]

\* proc = execute_run(["test", "-f" | "-d", path]); return proc.returncode == 0
is_target(fn, rc) ==
  LET proc == execute_run(rc, DefaultCheck)
  IN  IF proc.raised
        THEN [fn |-> fn, rc |-> rc, outcome |-> "raised", value |-> FALSE]
        ELSE [fn |-> fn, rc |-> rc, outcome |-> "returned", value |-> (proc.returncode = 0)]

is_target_file(rc) == is_target("is_target_file", rc)

is_target_directory(rc) == is_target("is_target_directory", rc)

\* ------------------------------------------- actions.linux: directory sync
\* producer / consumer: the two archive processes; handle: this process's
\* copy of the producer's stdout (the read end of the pipe); removal_failed,
\* dest_existed: what the call met at the destination
SyncIdle ==
  [fn |-> "none", delete |-> FALSE, steps |-> <<>>, pc |-> "idle",
   error |-> "none", consumer |-> "none", exit_code |-> 0,
   producer |-> "none", handle |-> "none",
   removal_failed |-> FALSE, dest_existed |-> FALSE]

SyncRaised(fn, deleteArg, steps, error) ==
  [fn |-> fn, delete |-> deleteArg, steps |-> steps, pc |-> "raised",
   error |-> error, consumer |-> "none", exit_code |-> 0,
   producer |-> "none", handle |-> "none",
   removal_failed |-> FALSE, dest_existed |-> FALSE]

\* the record of a call together with what it met at the destination
Met(sy, removalFailed, destExisted) ==
  [sy EXCEPT !.removal_failed = removalFailed, !.dest_existed = destExisted]

\* variant of SyncWaiting with a plausible slip: this process keeps its copy
\* of the producer's stdout open while it waits for the consumer
SyncWaiting_keeps_stdout(fn, deleteArg, steps) ==
  [fn |-> fn, delete |-> deleteArg,
   steps |-> steps \o <<"popen_producer", "popen_consumer">>,
   pc |-> "waiting", error |-> "none", consumer |-> "running", exit_code |-> 0,
   producer |-> "running", handle |-> "open",
   removal_failed |-> FALSE, dest_existed |-> FALSE]

\* both archive processes started, the producer's stdout closed in this
\* process, the caller blocked in target_proc.communicate()
SyncWaiting(fn, deleteArg, steps) ==
  [fn |-> fn, delete |-> deleteArg,
   steps |-> steps \o <<"popen_producer", "popen_consumer", "close_stdout">>,
   pc |-> "waiting", error |-> "none", consumer |-> "running", exit_code |-> 0,
   producer |-> "running", handle |-> "closed",
   removal_failed |-> FALSE, dest_existed |-> FALSE]

\* variant of directory_sync_to_remote with a plausible slip: rm -rf runs
\* with check=False, so a failed removal goes unnoticed
directory_sync_to_remote_unchecked_rm(deleteArg, rmRc, mkdirRc) ==
  LET fn == "directory_sync_to_remote"
      mkdir == execute_run(mkdirRc, TRUE)
      steps1 == IF deleteArg THEN <<"rm">> ELSE <<>>
      removalFailed == deleteArg /\ rmRc # 0
  IN  IF mkdir.raised
        THEN Met(SyncRaised(fn, deleteArg, steps1 \o <<"mkdir">>, "CalledProcessError"),
                 removalFailed, FALSE)
      ELSE Met(SyncWaiting(fn, deleteArg, steps1 \o <<"mkdir">>), removalFailed, FALSE)

\* directory_sync_to_remote up to communicate(): rm -rf (if delete) and
\* mkdir -p run in the instance with check=True; whether the destination
\* was there makes no difference to either command
directory_sync_to_remote(deleteArg, rmRc, mkdirRc) ==
  LET fn == "directory_sync_to_remote"
      rm == execute_run(rmRc, TRUE)
      mkdir == execute_run(mkdirRc, TRUE)
      steps1 == IF deleteArg THEN <<"rm">> ELSE <<>>
      removalFailed == deleteArg /\ rmRc # 0
  IN  IF deleteArg /\ rm.raised
        THEN Met(SyncRaised(fn, deleteArg, steps1, "CalledProcessError"), removalFailed, FALSE)
      ELSE IF mkdir.raised
        THEN Met(SyncRaised(fn, deleteArg, steps1 \o <<"mkdir">>, "CalledProcessError"),
                 removalFailed, FALSE)
      ELSE Met(SyncWaiting(fn, deleteArg, steps1 \o <<"mkdir">>), removalFailed, FALSE)

\* variant of directory_sync_from_remote with a plausible slip: the
\* destination is made with exist_ok=True
directory_sync_from_remote_exist_ok(deleteArg, destExists, rmtreeFails) ==
  LET fn == "directory_sync_from_remote"
      removes == deleteArg /\ destExists
      steps1 == IF removes THEN <<"rmtree">> ELSE <<>>
      removalFailed == removes /\ rmtreeFails
  IN  IF removes /\ rmtreeFails
        THEN Met(SyncRaised(fn, deleteArg, steps1, "OSError"), removalFailed, destExists)
      ELSE Met(SyncWaiting(fn, deleteArg, steps1 \o <<"mkdir">>), removalFailed, destExists)

\* directory_sync_from_remote up to communicate(): shutil.rmtree (if delete
\* and the host destination exists), then destination.mkdir(parents=True),
\* which fails on a destination that still exists
directory_sync_from_remote(deleteArg, destExists, rmtreeFails) ==
  LET fn == "directory_sync_from_remote"
      removes == deleteArg /\ destExists
      steps1 == IF removes THEN <<"rmtree">> ELSE <<>>
      existsAfter == destExists /\ ~removes
      removalFailed == removes /\ rmtreeFails
  IN  IF removes /\ rmtreeFails
        THEN Met(SyncRaised(fn, deleteArg, steps1, "OSError"), removalFailed, destExists)
      ELSE IF existsAfter
        THEN Met(SyncRaised(fn, deleteArg, steps1 \o <<"mkdir">>, "FileExistsError"),
                 removalFailed, destExists)
      ELSE Met(SyncWaiting(fn, deleteArg, steps1 \o <<"mkdir">>), removalFailed, destExists)

\* one more write of the producer into the pipe (finishes: it was its last
\* and the archive is complete). With the consumer gone and this process's
\* copy of the read end closed nobody holds the read end, and the write
\* ends the producer with SIGPIPE; with the copy still open the pipe fills
\* and the write blocks, because this process never reads
producer_writes(sy, finishes) ==
  IF sy.consumer = "running"
    THEN [sy EXCEPT !.producer = IF finishes THEN "done" ELSE "running"]
  ELSE IF sy.handle = "closed"
    THEN [sy EXCEPT !.producer = "sigpipe"]
  ELSE [sy EXCEPT !.producer = IF finishes THEN "done" ELSE "blocked"]

\* the consumer process terminates with an exit code
consumer_exit(sy, code) == [sy EXCEPT !.consumer = "exited", !.exit_code = code]

\* target_proc.communicate() returns once the consumer has terminated; the
\* function ends there and returns None
communicate_returns(sy) ==
  [sy EXCEPT !.steps = Append(sy.steps, "communicate"), !.pc = "returned"]

\* ------------------------------------- MultipassInstance.sync_to / sync_from
\* what a file holds, and the relative paths of the trees a sync moves
Contents == {"x", "y"}

RelPaths == {"a.txt", "sub/b.txt"}

Missing == "missing"

\* a directory tree: what each relative path under it holds
Trees == [RelPaths -> Contents \cup {Missing}]

EmptyTree == [p \in RelPaths |-> Missing]

\* what a path holds: nothing, a regular file, or a directory tree
NoNode == [kind |-> "none", content |-> Missing, tree |-> EmptyTree]

FileNode(c) == [kind |-> "file", content |-> c, tree |-> EmptyTree]

DirNode(t) == [kind |-> "dir", content |-> Missing, tree |-> t]

Nodes ==
  {NoNode} \cup {FileNode(c) : c \in Contents} \cup {DirNode(t) : t \in Trees}

\* the paths of one sync round trip: host source, instance path, host target
HostSource == "src"

HostTarget == "out"

VmPath == "/root/project"

\* the name a source file is transferred under
SourceName == "a.txt"

\* exit code of `test -f` / `test -d` in the instance
TestRc(holds) == IF holds THEN 0 ELSE 1

\* what a tar consumer extracts from the producer's stream: `tar xpvf - -C d`
\* reads the archive from stdin; any other archive argument names a file
\* that is not there, and nothing is extracted
StdinArchive == "-"

ToRemoteArchiveArg == "-"

FromRemoteArchiveArg == "-,"

Extracted(tree, archiveArg, code) ==
  IF archiveArg = StdinArchive /\ code = 0 THEN tree ELSE EmptyTree

\* the exit code the consumer ends with, given the one its extraction has
ConsumerCode(archiveArg, code) ==
  IF archiveArg = StdinArchive THEN code ELSE IF code = 0 THEN 2 ELSE code

\* extracting a tree over a directory: extracted paths replace, others stay
Overlay(base, tree) ==
  [p \in RelPaths |-> IF tree[p] # Missing THEN tree[p] ELSE base[p]]

\* a single file transferred onto a path: into it when it is a directory
Transferred(node, c) ==
  IF node.kind = "dir"
    THEN DirNode([node.tree EXCEPT ![SourceName] = c])
    ELSE FileNode(c)

XferIdle ==
  [fn |-> "none", source |-> NoNode, before |-> NoNode, outcome |-> "none",
   error |-> "none", steps |-> <<>>, faulted |-> FALSE]

\* the record of a sync call; faulted tells that the environment made one of
\* its commands or processes fail
Xfer(fn, source, before, outcome, error, steps, faulted) ==
  [fn |-> fn, source |-> source, before |-> before, outcome |-> outcome,
   error |-> error, steps |-> steps, faulted |-> faulted]

\* result of a sync: the destination node afterwards and the call's record
Synced(node, x) == [node |-> node, xfer |-> x]

\* the data a directory sync leaves at the destination, from the steps the
\* sync took (sy), the tree streamed and the consumer's archive argument: a
\* removal that did not raise clears the destination, the consumer extracts
\* over what is there
SyncedNode(before, sy, tree, archiveArg, code) ==
  LET removes == \E i \in 1..Len(sy.steps) : sy.steps[i] \in {"rm", "rmtree"}
      removalRaised == sy.pc = "raised" /\ sy.steps[Len(sy.steps)] \in {"rm", "rmtree"}
      cleared == IF removes /\ ~removalRaised THEN NoNode ELSE before
      base == IF cleared.kind = "dir" THEN cleared.tree ELSE EmptyTree
  IN  IF sy.pc = "raised"
        THEN cleared
        ELSE DirNode(Overlay(base, Extracted(tree, archiveArg, code)))

\* variant of sync_to with a plausible slip: the directory sync is called
\* with delete=False
sync_to_without_delete(source, before, rmRc, mkdirRc, code, transferFails) ==
  LET fn == "sync_to"
      faulted == rmRc # 0 \/ mkdirRc # 0 \/ code # 0 \/ transferFails
  IN  IF source.kind = "file"
        THEN IF transferFails
               THEN Synced(before, Xfer(fn, source, before, "raised", "MultipassError",
                                        <<"mkdir_parent", "transfer">>, faulted))
               ELSE Synced(Transferred(before, source.content),
                           Xfer(fn, source, before, "returned", "none",
                                <<"mkdir_parent", "transfer">>, faulted))
      ELSE IF source.kind = "dir"
        THEN LET sy == directory_sync_to_remote(FALSE, rmRc, mkdirRc)
                 node == SyncedNode(before, sy, source.tree, ToRemoteArchiveArg, code)
             IN  IF sy.pc = "raised"
                   THEN Synced(node, Xfer(fn, source, before, "raised", sy.error, sy.steps, faulted))
                   ELSE Synced(node, Xfer(fn, source, before, "returned", "none",
                                          communicate_returns(consumer_exit(sy, code)).steps, faulted))
      ELSE Synced(before, Xfer(fn, source, before, "raised", "FileNotFoundError", <<>>, faulted))

\* MultipassInstance.sync_to(source, destination)
sync_to(source, before, rmRc, mkdirRc, code, transferFails) ==
  LET fn == "sync_to"
      faulted == rmRc # 0 \/ mkdirRc # 0 \/ code # 0 \/ transferFails
  IN  IF source.kind = "file"
        THEN IF transferFails
               THEN Synced(before, Xfer(fn, source, before, "raised", "MultipassError",
                                        <<"mkdir_parent", "transfer">>, faulted))
               ELSE Synced(Transferred(before, source.content),
                           Xfer(fn, source, before, "returned", "none",
                                <<"mkdir_parent", "transfer">>, faulted))
      ELSE IF source.kind = "dir"
        THEN LET sy == directory_sync_to_remote(TRUE, rmRc, mkdirRc)
                 node == SyncedNode(before, sy, source.tree, ToRemoteArchiveArg, code)
             IN  IF sy.pc = "raised"
                   THEN Synced(node, Xfer(fn, source, before, "raised", sy.error, sy.steps, faulted))
                   ELSE Synced(node, Xfer(fn, source, before, "returned", "none",
                                          communicate_returns(consumer_exit(sy, code)).steps, faulted))
      ELSE Synced(before, Xfer(fn, source, before, "raised", "FileNotFoundError", <<>>, faulted))

\* MultipassInstance.sync_from(source, destination)
sync_from(source, before, rmtreeFails, code, transferFails) ==
  LET fn == "sync_from"
      faulted == rmtreeFails \/ code # 0 \/ transferFails
      isFile == is_target_file(TestRc(source.kind = "file"))
      isDir == is_target_directory(TestRc(source.kind = "dir"))
  IN  IF isFile.outcome = "raised"
        THEN Synced(before, Xfer(fn, source, before, "raised", "CalledProcessError",
                                 <<"is_target_file">>, faulted))
      ELSE IF isFile.value
        THEN IF transferFails
               THEN Synced(before, Xfer(fn, source, before, "raised", "MultipassError",
                                        <<"is_target_file", "mkdir_parent", "transfer">>, faulted))
               ELSE Synced(Transferred(before, source.content),
                           Xfer(fn, source, before, "returned", "none",
                                <<"is_target_file", "mkdir_parent", "transfer">>, faulted))
      ELSE IF isDir.outcome = "raised"
        THEN Synced(before, Xfer(fn, source, before, "raised", "CalledProcessError",
                                 <<"is_target_file", "is_target_directory">>, faulted))
      ELSE IF isDir.value
        THEN LET sy == directory_sync_from_remote(FALSE, before.kind # "none", rmtreeFails)
                 node == SyncedNode(before, sy, source.tree, FromRemoteArchiveArg, code)
                 pre == <<"is_target_file", "is_target_directory">>
             IN  IF sy.pc = "raised"
                   THEN Synced(node, Xfer(fn, source, before, "raised", sy.error,
                                          pre \o sy.steps, faulted))
                   ELSE Synced(node, Xfer(fn, source, before, "returned", "none",
                          pre \o communicate_returns(
                                   consumer_exit(sy, ConsumerCode(FromRemoteArchiveArg, code))).steps, faulted))
      ELSE Synced(before, Xfer(fn, source, before, "raised", "FileNotFoundError",
                               <<"is_target_file", "is_target_directory">>, faulted))

FilesIdle ==
  /\ host_fs = [p \in {HostSource, HostTarget} |-> NoNode]
  /\ vm_fs = [p \in {VmPath} |-> NoNode]
  /\ xfer = XferIdle
  /\ xprev = XferIdle

\* ------------------------------------------ MultipassInstance.create_file
\* a file in the instance with its metadata, or no file
FileModes == {"0644", "0600"}

RootOwner == "0:0"

\* the user a multipass transfer writes as, and the mode it leaves
TransferOwner == "1000:1000"

TransferMode == "0664"

Owners == {RootOwner, TransferOwner}

\* what an interrupted transfer leaves behind
Partial == "partial"

NoFile == [content |-> Missing, mode |-> "none", owner |-> "none"]

File(content, mode, owner) == [content |-> content, mode |-> mode, owner |-> owner]

Requests == [content : Contents, mode : FileModes, owner : Owners]

\* the steps of create_file in source order
CreateFileSteps == <<"transfer", "chown", "chmod", "mv">>

CreateFileIdle ==
  [pc |-> "idle", request |-> [content |-> "x", mode |-> "0644", owner |-> RootOwner],
   staging |-> NoFile, dest |-> NoFile, dest0 |-> NoFile, done |-> <<>>,
   error |-> "none"]

\* create_file(destination, content, file_mode, gid, uid) is entered: the
\* staging path under /tmp is derived from the destination
create_file(c, request) ==
  [c EXCEPT !.pc = "transfer", !.request = request, !.dest0 = c.dest,
            !.done = <<>>, !.error = "none"]

\* a step of create_file has failed: the exception leaves the function
CreateFileRaised(c, step, error, staging) ==
  [c EXCEPT !.pc = "raised", !.error = error, !.staging = staging,
            !.done = Append(c.done, step)]

\* a step of create_file has succeeded: on to the next one
CreateFileNext(c, step, pc, staging, dest) ==
  [c EXCEPT !.pc = pc, !.staging = staging, !.dest = dest,
            !.done = Append(c.done, step)]

\* variant of create_file_step with a plausible slip: the commands run with
\* check=False and the transfer's exit code is not looked at
create_file_step_unchecked(c, rc, cut) ==
  LET req == c.request
      sent == File(IF rc # 0 /\ cut THEN Partial ELSE req.content,
                   TransferMode, TransferOwner)
  IN  IF c.pc = "transfer"
        THEN CreateFileNext(c, "transfer", "chown", sent, c.dest)
      ELSE IF c.pc = "chown"
        THEN CreateFileNext(c, "chown", "chmod",
               IF rc = 0 THEN [c.staging EXCEPT !.owner = req.owner] ELSE c.staging, c.dest)
      ELSE IF c.pc = "chmod"
        THEN CreateFileNext(c, "chmod", "mv",
               IF rc = 0 THEN [c.staging EXCEPT !.mode = req.mode] ELSE c.staging, c.dest)
      ELSE IF rc = 0
             THEN CreateFileNext(c, "mv", "returned", NoFile, c.staging)
             ELSE CreateFileNext(c, "mv", "returned", c.staging, c.dest)

\* one step of create_file: transfer_from_io raises MultipassError when the
\* transfer process exits nonzero (the staging file then holds nothing new
\* or a cut-off copy); chown, chmod and mv run through execute_run with its
\* default check=True; mv renames the staging file onto the destination
create_file_step(c, rc, cut) ==
  LET req == c.request
  IN  IF c.pc = "transfer"
        THEN IF rc # 0
               THEN CreateFileRaised(c, "transfer", "MultipassError",
                      IF cut THEN File(Partial, TransferMode, TransferOwner) ELSE c.staging)
               ELSE CreateFileNext(c, "transfer", "chown",
                      File(req.content, TransferMode, TransferOwner), c.dest)
      ELSE IF execute_run(rc, DefaultCheck).raised
        THEN CreateFileRaised(c, c.pc, "CalledProcessError", c.staging)
      ELSE IF c.pc = "chown"
        THEN CreateFileNext(c, "chown", "chmod", [c.staging EXCEPT !.owner = req.owner], c.dest)
      ELSE IF c.pc = "chmod"
        THEN CreateFileNext(c, "chmod", "mv", [c.staging EXCEPT !.mode = req.mode], c.dest)
      ELSE CreateFileNext(c, "mv", "returned", NoFile, c.staging)

\* ------------------------------------------------ Multipass (the client)
\* what `multipass info` prints, as the phrases the client looks for
NotFoundOutput == <<"info failed: instance ", InstanceName, " ", "does not exist">>

OtherFailureOutput == <<"info failed: ", "cannot connect to the multipass socket">>

InfoOutput(v) == <<"Name: ", InstanceName, " State: ", v.status>>

\* `phrase in output`
Mentions(output, phrase) == \E i \in 1..Len(output) : output[i] = phrase

\* proc.stdout as one text
RECURSIVE Text(_)
Text(output) == IF output = <<>> THEN "" ELSE Head(output) \o Text(Tail(output))

\* the backend's answer to `multipass info <instance>`: the daemon may fail
\* for reasons of its own (fault), and fails for an instance it does not have
backend_info(v, fault) ==
  IF fault THEN [rc |-> 1, stdout |-> OtherFailureOutput]
  ELSE IF exists(v) THEN [rc |-> 0, stdout |-> InfoOutput(v)]
  ELSE [rc |-> 2, stdout |-> NotFoundOutput]

InfoCall(v, proc) ==
  [cmd |-> "info", on |-> v.status, id |-> v.id, rc |-> proc.rc, stdout |-> proc.stdout]

\* variant of multipass_info with a plausible slip: any failed query is
\* taken for "no such instance"
multipass_info_swallows(v, fault) ==
  LET proc == backend_info(v, fault)
      calls == <<InfoCall(v, proc)>>
  IN  IF proc.rc # 0
        THEN Returned("info", FALSE, calls, v, None)
        ELSE Returned("info", FALSE, calls, v, Text(proc.stdout))

\* Multipass.info: _run raises CalledProcessError on a nonzero exit; a
\* failure mentioning "does not exist" is answered with None, any other
\* failure raises MultipassError, success returns proc.stdout
multipass_info(v, fault) ==
  LET proc == backend_info(v, fault)
      calls == <<InfoCall(v, proc)>>
  IN  IF proc.rc # 0
        THEN IF Mentions(proc.stdout, "does not exist")
               THEN Returned("info", FALSE, calls, v, None)
               ELSE Raised("info", FALSE, calls, v, "MultipassError",
                           "Failed to query info for VM '" \o InstanceName \o "'.")
        ELSE Returned("info", FALSE, calls, v, Text(proc.stdout))

\* Multipass.delete(instance, purge=True) through MultipassInstance.delete:
\* `multipass delete <instance> --purge` run by _run with check=True; the
\* backend refuses to delete an instance it does not have
multipass_delete(v) ==
  IF exists(v)
    THEN [vm |-> delete(v), op |-> Returned("delete", FALSE, <<Call("delete", v)>>, v, None)]
    ELSE [vm |-> v, op |-> Raised("delete", FALSE, <<Call("delete", v)>>, v,
                                  "CalledProcessError", "")]

\* ------------------------------------------------------ MultipassInstaller
Platforms == {"linux", "darwin", "win32", "freebsd"}

\* Multipass versions (major, minor) a host may carry or an install may bring
Versions == {<<0, 9>>, <<1, 4>>, <<1, 5>>, <<1, 10>>, <<2, 0>>}

\* what the user has typed on stdin when install() is called
NoAnswers == {"n", "N", "no", "NO"}

YesAnswers == {"y", "YES"}

Answers == NoAnswers \cup YesAnswers

MultipassPath == "/snap/bin/multipass"

NotInstalled == [present |-> FALSE, version |-> <<0, 9>>, daemon |-> FALSE]

Installation(version, daemon) == [present |-> TRUE, version |-> version, daemon |-> daemon]

\* str(MultipassInstallerError(reason))
InstallerErrorStr(reason) == "Failed to install Multipass: " \o reason

\* `multipass version` prints the client's version, and the daemon's once
\* the daemon answers
version_output(h) ==
  IF h.daemon
    THEN <<"multipass", h.version, "multipassd", h.version>>
    ELSE <<"multipass", h.version>>

\* float(major_minor) < 1.5, the minor read as decimal digits after the point
float_below_1_5(version) ==
  LET major == version[1]
      minor == version[2]
  IN  IF minor < 10
        THEN major * 10 + minor < 15
        ELSE major * 100 + minor < 150

\* _ensure_supported_version: the reason of the MultipassInstallerError it
\* raises, or "none"; a Multipass executable that is there answers `version`
\* with exit code 0
_ensure_supported_version(h) ==
  LET output_split == version_output(h)
  IN  IF Len(output_split) # 4 THEN "unable to parse version output"
      ELSE IF float_below_1_5(output_split[2]) THEN "version unsupported (must be >= 1.5)"
      ELSE "none"

\* _find_multipass: the executable's path if there is one
_find_multipass(h) == IF h.present THEN MultipassPath ELSE None

is_installed(h) == _find_multipass(h) # None

\* the platform's installation command, or "none"
InstallCommand(platform) ==
  IF platform = "darwin" THEN "brew cask install multipass"
  ELSE IF platform = "linux" THEN "sudo snap install multipass"
  ELSE "none"

\* the reason _install_darwin / _install_linux give when the command fails
InstallFailure(platform) ==
  IF platform = "darwin" THEN "error during brew installation"
                         ELSE "error during snap installation"

Installed(h, platform, stdin, cmdOk, was, commands, outcome, reason, ret) ==
  [host |-> h,
   op |-> [platform |-> platform, stdin |-> stdin, cmd_ok |-> cmdOk, was_installed |-> was,
           commands |-> commands, outcome |-> outcome,
           error |-> IF outcome = "raised" THEN "MultipassInstallerError" ELSE "none",
           reason |-> reason, ret |-> ret]]

InstallIdle ==
  [platform |-> "linux", stdin |-> "y", cmd_ok |-> TRUE, was_installed |-> FALSE, commands |-> <<>>,
   outcome |-> "none", error |-> "none", reason |-> "", ret |-> None]

\* the second half of install(): find the executable, check its version
FindAndCheck(h, platform, stdin, cmdOk, was, commands) ==
  IF _find_multipass(h) = None
    THEN Installed(h, platform, stdin, cmdOk, was, commands, "raised", "multipass not found", None)
  ELSE IF _ensure_supported_version(h) # "none"
    THEN Installed(h, platform, stdin, cmdOk, was, commands, "raised",
                   _ensure_supported_version(h), None)
  ELSE Installed(h, platform, stdin, cmdOk, was, commands, "returned", "", _find_multipass(h))

\* variant of install with a plausible slip: the path is returned without
\* looking for the executable
install_without_find(h, platform, stdin, cmdOk, brought) ==
  LET was == is_installed(h)
      cmd == InstallCommand(platform)
  IN  IF ~was /\ cmd = "none"
        THEN Installed(h, platform, stdin, cmdOk, was, <<>>, "raised",
               IF platform = "win32" THEN "Windows not yet supported"
                                     ELSE "platform " \o platform \o " not supported", None)
      ELSE IF ~was /\ ~cmdOk
        THEN Installed(h, platform, stdin, cmdOk, was, <<cmd>>, "raised",
                       InstallFailure(platform), None)
      ELSE Installed(IF was THEN h ELSE brought, platform, stdin, cmdOk, was,
                     IF was THEN <<>> ELSE <<cmd>>, "returned", "", MultipassPath)

\* MultipassInstaller(platform).install(): stdin is what the user has typed,
\* cmdOk whether the installation command succeeds, brought what the host
\* carries after a successful installation command
install(h, platform, stdin, cmdOk, brought) ==
  LET was == is_installed(h)
      cmd == InstallCommand(platform)
  IN  IF was
        THEN FindAndCheck(h, platform, stdin, cmdOk, was, <<>>)
      ELSE IF cmd = "none"
        THEN Installed(h, platform, stdin, cmdOk, was, <<>>, "raised",
               IF platform = "win32" THEN "Windows not yet supported"
                                     ELSE "platform " \o platform \o " not supported", None)
      ELSE IF ~cmdOk
        THEN Installed(h, platform, stdin, cmdOk, was, <<cmd>>, "raised",
                       InstallFailure(platform), None)
      ELSE FindAndCheck(brought, platform, stdin, cmdOk, was, <<cmd>>)

\* ----------------------------------------------------------- util.prompt
\* bound on the number of times one input_prompt_bool call asks
MaxAsks == 3

Responses == {"", "y", "Ye", "yes", "YES", "n", "No", "NO", "maybe", "nope", "1"}

\* str.upper() on the responses
upper(resp) ==
  CASE resp \in {"y"} -> "Y"
    [] resp \in {"Ye"} -> "YE"
    [] resp \in {"yes", "YES"} -> "YES"
    [] resp \in {"n"} -> "N"
    [] resp \in {"No", "NO"} -> "NO"
    [] resp = "maybe" -> "MAYBE"
    [] resp = "nope" -> "NOPE"
    [] OTHER -> resp

\* input_prompt: the default replaces an empty response
input_prompt(resp, default) == IF resp = "" /\ default # None THEN default ELSE resp

PromptIdle ==
  [pc |-> "idle", default |-> FALSE, retry_invalid |-> TRUE, typed |-> <<>>, ret |-> FALSE]

\* input_prompt_bool(prompt, default=..., retry_invalid=...) is entered
input_prompt_bool(default, retry_invalid) ==
  [pc |-> "asking", default |-> default, retry_invalid |-> retry_invalid,
   typed |-> <<>>, ret |-> FALSE]

\* one pass of input_prompt_bool's loop, the user typing `typed`
input_prompt_bool_ask(p, typed) ==
  LET default_resp == IF p.default THEN "N" ELSE "Y"
      resp == input_prompt(typed, default_resp)
      q == [p EXCEPT !.typed = Append(p.typed, typed)]
  IN  IF upper(resp) \in {"Y", "YE", "YES"}
        THEN [q EXCEPT !.pc = "returned", !.ret = TRUE]
      ELSE IF p.retry_invalid /\ upper(resp) \notin {"N", "NO"}
        THEN q
      ELSE [q EXCEPT !.pc = "returned", !.ret = FALSE]

\* ------------------------------------- create_file, two calls at a time
\* two callers of create_file on one instance, and what each asks for
Callers == {"A", "B"}

\* destination paths as sequences of characters: /a/b, /a_b and /c
Destinations == {<<"/", "a", "/", "b">>, <<"/", "a", "_", "b">>, <<"/", "c">>}

CallerRequest(k) ==
  IF k = "A" THEN [content |-> "x", mode |-> "0644", owner |-> RootOwner]
             ELSE [content |-> "y", mode |-> "0600", owner |-> TransferOwner]

\* destination.as_posix().replace("/", "_")
as_posix_replace(destination) ==
  [i \in 1..Len(destination) |-> IF destination[i] = "/" THEN "_" ELSE destination[i]]

\* tmp_file_path: the staging path under /tmp derived from the destination
tmp_file_path(destination) == <<"/", "tmp", "/">> \o as_posix_replace(destination)

\* a staging path of its own for every call, as mktemp would make it (the
\* code has none: used by the variant below)
UniquePath(destination, k) == tmp_file_path(destination) \o <<".", k>>

Paths ==
  Destinations \cup {tmp_file_path(d) : d \in Destinations}
               \cup {UniquePath(d, k) : d \in Destinations, k \in Callers}

CallerIdle(k) ==
  [id |-> k, pc |-> "idle", request |-> CallerRequest(k), destination |-> <<"/", "c">>,
   done |-> <<>>, error |-> "none", faulted |-> FALSE, starved |-> FALSE]

RaceIdle ==
  [callers |-> [k \in Callers |-> CallerIdle(k)],
   files |-> [p \in Paths |-> NoFile],
   order |-> <<>>]

\* caller c enters create_file(destination, ...)
create_file_enter(c, destination) ==
  [c EXCEPT !.pc = "transfer", !.destination = destination]

\* the call of c as create_file_step sees it, with the files now at its
\* staging path and at its destination
CallOn(files, c, staging) ==
  [pc |-> c.pc, request |-> c.request, staging |-> files[staging],
   dest |-> files[c.destination], dest0 |-> files[c.destination],
   done |-> c.done, error |-> c.error]

\* one step of c's create_file on the instance's files; chown, chmod and mv
\* of a staging file that is not there exit 1. rc # 0 otherwise is a fault
\* of the environment
CreateFileOn(files, c, staging, rc, cut) ==
  LET gone == c.pc # "transfer" /\ files[staging] = NoFile
      r == create_file_step(CallOn(files, c, staging), IF gone THEN 1 ELSE rc, cut)
  IN  [files |-> [files EXCEPT ![staging] = r.staging, ![c.destination] = r.dest],
       caller |-> [c EXCEPT !.pc = r.pc, !.done = r.done, !.error = r.error,
                            !.faulted = c.faulted \/ (~gone /\ rc # 0),
                            !.starved = gone]]

\* variant of create_file_racing with a plausible repair: every call stages
\* in a file of its own
create_file_racing_own_staging(files, c, rc, cut) ==
  CreateFileOn(files, c, UniquePath(c.destination, c.id), rc, cut)

\* one step of create_file while another call may be running: the staging
\* path depends on the destination alone
create_file_racing(files, c, rc, cut) ==
  CreateFileOn(files, c, tmp_file_path(c.destination), rc, cut)

\* ------------------------------------------- Multipass(Provider), mounts
\* mount points inside the instance; the project is mounted at the first
Targets == {"/root/project", "/root/parts"}

ProjectTarget == "/root/project"

\* self._instance_info: nothing cached, or the state and mount table that
\* the last _get_instance_info() stored
NoInfo == [cached |-> FALSE, state |-> "Absent", mounts |-> {}]

InstanceInfo(l) == [cached |-> TRUE, state |-> l.state, mounts |-> l.mounts]

LegacyNoOp ==
  [name |-> "none", target |-> ProjectTarget, calls |-> <<>>, outcome |-> "none",
   error |-> "none"]

LegacyIdle ==
  [state |-> "Absent", mounts |-> {}, instance_info |-> NoInfo,
   op |-> LegacyNoOp, prev |-> LegacyNoOp]

\* a backend command as the backend meets it: `mounted` tells whether the
\* target was mounted in the instance at that moment
MountCommand(l, cmd, target) ==
  [cmd |-> cmd, target |-> target, mounted |-> target \in l.mounts]

\* the provider after a method: what the method did is in op
LegacyDone(l, before, name, target, calls, error) ==
  [l EXCEPT !.prev = before.op,
            !.op = [name |-> name, target |-> target, calls |-> calls,
                    outcome |-> IF error = "none" THEN "returned" ELSE "raised",
                    error |-> error]]

\* _is_mounted: asks the cached instance info, False when nothing is cached
_is_mounted(l, target) ==
  IF ~l.instance_info.cached THEN FALSE ELSE target \in l.instance_info.mounts

\* `multipass mount` succeeds on an existing instance where the target is
\* not mounted yet; `multipass umount` where it is mounted
mount_succeeds(l, target) == l.state # "Absent" /\ target \notin l.mounts

umount_succeeds(l, target) == l.state # "Absent" /\ target \in l.mounts

\* Multipass._mount(host_source, target)
_mount(l, target) ==
  IF _is_mounted(l, target)
    THEN LegacyDone(l, l, "_mount", target, <<>>, "none")
  ELSE IF mount_succeeds(l, target)
    THEN LegacyDone([l EXCEPT !.mounts = l.mounts \cup {target}], l, "_mount", target,
                    <<MountCommand(l, "mount", target)>>, "none")
  ELSE LegacyDone(l, l, "_mount", target, <<MountCommand(l, "mount", target)>>,
                  "MultipassError")

\* Multipass._umount(mountpoint)
_umount(l, target) ==
  IF umount_succeeds(l, target)
    THEN LegacyDone([l EXCEPT !.mounts = l.mounts \ {target}], l, "_umount", target,
                    <<MountCommand(l, "umount", target)>>, "none")
    ELSE LegacyDone(l, l, "_umount", target, <<MountCommand(l, "umount", target)>>,
                    "MultipassError")

\* Multipass.create(): launch_instance() leaves the instance running, the
\* instance info is cached, then the project is mounted (_mount_project)
legacy_create(l) ==
  LET launched == [l EXCEPT !.state = "Running"]
      cached == [launched EXCEPT !.instance_info = InstanceInfo(launched)]
      r == _mount(cached, ProjectTarget)
  IN  LegacyDone(r, l, "create", ProjectTarget,
                 <<MountCommand(l, "launch", ProjectTarget)>> \o r.op.calls, r.op.error)

\* Multipass._start(): the instance info is fetched but not stored
_start(l) ==
  IF l.state = "Absent"
    THEN LegacyDone(l, l, "_start", ProjectTarget, <<>>, "ProviderInstanceNotFoundError")
    ELSE LegacyDone([l EXCEPT !.state = "Running"], l, "_start", ProjectTarget,
                    <<MountCommand(l, "start", ProjectTarget)>>, "none")

\* Multipass.destroy(): the instance info is fetched and stored, a running
\* instance is stopped, an ephemeral one is deleted afterwards
destroy(l, is_ephemeral) ==
  IF l.state = "Absent"
    THEN LegacyDone(l, l, "destroy", ProjectTarget, <<>>, "none")
  ELSE LET cached == [l EXCEPT !.instance_info = InstanceInfo(l)]
       IN  IF l.state = "Stopped"
             THEN LegacyDone(cached, l, "destroy", ProjectTarget, <<>>, "none")
           ELSE IF is_ephemeral
             THEN LegacyDone([cached EXCEPT !.state = "Absent", !.mounts = {}], l, "destroy",
                             ProjectTarget,
                             <<MountCommand(l, "stop", ProjectTarget),
                               MountCommand(l, "delete", ProjectTarget)>>, "none")
           ELSE LegacyDone([cached EXCEPT !.state = "Stopped"], l, "destroy", ProjectTarget,
                           <<MountCommand(l, "stop", ProjectTarget)>>, "none")

\* ------------------------------------------- Multipass.transfer_from_io
\* bounds on the source stream, on bufsize and on the number of times
\* communicate(timeout=1) times out before the process has exited
MaxStreamLen == 3

MaxBufsize == 2

MaxCommunicateTimeouts == 2

Bytes == {"a", "b"}

Streams == UNION {[1..n -> Bytes] : n \in 0..MaxStreamLen}

Min(a, b) == IF a < b THEN a ELSE b

TransferIdle ==
  [pc |-> "idle", stream |-> <<>>, bufsize |-> 1, rest |-> <<>>, written |-> <<>>,
   short_reads |-> 0, timeouts |-> 0, returncode |-> 0, error |-> "none"]

\* transfer_from_io(source, destination, bufsize): the transfer process is
\* started with a pipe as its stdin
transfer_from_io(stream, bufsize) ==
  [TransferIdle EXCEPT !.pc = "reading", !.stream = stream, !.bufsize = bufsize,
                       !.rest = stream]

\* one pass of the streaming loop: source.read(bufsize) returns n bytes, a
\* non-empty read is written to the process, a read shorter than bufsize
\* ends the loop
transfer_from_io_read(t, n) ==
  LET read == SubSeq(t.rest, 1, n)
      short == n < Min(t.bufsize, Len(t.rest))
  IN  [t EXCEPT !.rest = SubSeq(t.rest, n + 1, Len(t.rest)),
                !.written = t.written \o read,
                !.short_reads = IF short THEN t.short_reads + 1 ELSE t.short_reads,
                !.pc = IF n < t.bufsize THEN "waiting" ELSE "reading"]

\* one pass of the waiting loop in which communicate(timeout=1) timed out:
\* returncode is None and the loop goes round
transfer_from_io_timeout(t) == [t EXCEPT !.timeouts = t.timeouts + 1]

\* the pass of the waiting loop in which the process has exited: 0 ends the
\* call, anything else raises MultipassError
transfer_from_io_exit(t, returncode) ==
  [t EXCEPT !.returncode = returncode,
            !.pc = IF returncode = 0 THEN "returned" ELSE "raised",
            !.error = IF returncode = 0 THEN "none" ELSE "MultipassError"]

OthersIdle == race = RaceIdle /\ legacy = LegacyIdle /\ tio = TransferIdle

InstallsIdle ==
  /\ installed = NotInstalled
  /\ install_op = InstallIdle
  /\ prompt = PromptIdle

LinuxIdle == poll = PollIdle /\ pred = PredIdle /\ sync = SyncIdle

ActionsIdle == LinuxIdle /\ FilesIdle /\ cf = CreateFileIdle /\ InstallsIdle /\ OthersIdle

ProviderIdle ==
  /\ vm = AbsentVm
  /\ launches = 1
  /\ auto_clean_arg = "omitted"
  /\ auto_clean = ResolveAutoClean("omitted")
  /\ instance = None
  /\ instance_stop_time_mins = DefaultStopTimeMins
  /\ op = NoOp
  /\ prev = NoOp

\* ------------------------------------------------------------------ actions
Init ==
  /\ \E v \in {AbsentVm} \cup ExistingVms(1) : vm = v
  /\ launches = 1
  /\ \E arg \in AutoCleanArgs :
       /\ auto_clean_arg = arg
       /\ auto_clean = ResolveAutoClean(arg)
  /\ instance \in {None, InstanceName}
  /\ instance_stop_time_mins \in StopTimes
  /\ op = NoOp
  /\ prev = NoOp
  /\ ActionsIdle

\* MultipassProvider(...): a new provider for the same instance name
Construct(arg, handle, stopTime) ==
  /\ auto_clean_arg' = arg
  /\ auto_clean' = ResolveAutoClean(arg)
  /\ instance' = handle
  /\ instance_stop_time_mins' = stopTime
  /\ op' = Returned("construct", FALSE, <<>>, vm, None)
  /\ prev' = op
  /\ UNCHANGED <<vm, launches>>
  /\ UNCHANGED actionVars

\* MultipassProvider.setup()
Setup(fault, refuse, imageTag) ==
  /\ launches < MaxLaunches
  /\ LET r == _setup_instance(vm, auto_clean, fault, refuse, launches + 1, imageTag)
     IN  /\ vm' = r.vm
         /\ launches' = IF r.vm.id = launches + 1 THEN launches + 1 ELSE launches
         /\ IF r.error = "none"
              THEN /\ instance' = InstanceName
                   /\ op' = Returned("setup", FALSE, r.calls, vm, InstanceName)
              ELSE /\ instance' = instance
                   /\ op' = Raised("setup", FALSE, r.calls, vm, r.error, r.reason)
  /\ prev' = op
  /\ UNCHANGED <<auto_clean_arg, auto_clean, instance_stop_time_mins>>
  /\ UNCHANGED actionVars

\* MultipassProvider.teardown(clean=...)
Teardown(clean) ==
  /\ LET r == teardown(vm, instance, clean)
     IN  /\ vm' = r.vm
         /\ op' = Returned("teardown", clean, r.calls, vm, None)
  /\ prev' = op
  /\ UNCHANGED <<launches, auto_clean_arg, auto_clean, instance, instance_stop_time_mins>>
  /\ UNCHANGED actionVars

\* MultipassInstance.start() by the caller
InstanceStart ==
  /\ IF exists(vm)
       THEN /\ vm' = start(vm)
            /\ op' = Returned("start", FALSE, <<Call("start", vm)>>, vm, None)
       ELSE /\ vm' = vm
            /\ op' = Raised("start", FALSE, <<Call("start", vm)>>, vm, "MultipassError", "")
  /\ prev' = op
  /\ UNCHANGED <<launches, auto_clean_arg, auto_clean, instance, instance_stop_time_mins>>
  /\ UNCHANGED actionVars

\* MultipassInstance.stop() by the caller
InstanceStop ==
  /\ IF exists(vm)
       THEN /\ vm' = stop(vm)
            /\ op' = Returned("stop", FALSE, <<StopCall(vm)>>, vm, None)
       ELSE /\ vm' = vm
            /\ op' = Raised("stop", FALSE, <<StopCall(vm)>>, vm, "MultipassError", "")
  /\ prev' = op
  /\ UNCHANGED <<launches, auto_clean_arg, auto_clean, instance, instance_stop_time_mins>>
  /\ UNCHANGED actionVars

\* the caller writes /etc/craft-image.conf into the instance (create_file)
InsertConfig(tag) ==
  /\ IF ExecSucceeds(vm)
       THEN /\ vm' = save_craft_config(vm, [compatibility_tag |-> tag])
            /\ op' = Returned("create_file", FALSE, <<>>, vm, None)
       ELSE /\ vm' = vm
            /\ op' = Raised("create_file", FALSE, <<>>, vm, "MultipassError", "")
  /\ prev' = op
  /\ UNCHANGED <<launches, auto_clean_arg, auto_clean, instance, instance_stop_time_mins>>
  /\ UNCHANGED actionVars

\* what a launched image may carry in /etc/craft-image.conf: a base image has
\* no marker, an image built by the image setup logic has the expected one
ImageTags == {NoTag, ExpectedTag}

Next ==
  \/ \E arg \in AutoCleanArgs, handle \in {None, InstanceName}, stopTime \in StopTimes :
       Construct(arg, handle, stopTime)
  \/ \E fault \in BOOLEAN, refuse \in BOOLEAN, imageTag \in ImageTags :
       Setup(fault, refuse, imageTag)
  \/ \E clean \in BOOLEAN : Teardown(clean)
  \/ InstanceStart
  \/ InstanceStop
  \/ \E tag \in Tags : InsertConfig(tag)

Spec == Init /\ [][Next]_vars

\* --------------------------------------------- readiness pollers, stepwise
InitPoll == ProviderIdle /\ ActionsIdle

PollFree == poll.pc \in {"idle", "returned", "raised"}

\* wait_for_system_ready(executor, retry_count=...)
WaitForSystemReady(retry_count) ==
  /\ PollFree
  /\ poll' = EnterLoop("wait_for_system_ready", retry_count)
  /\ UNCHANGED <<providerVars, pred, sync, fileVars, installVars, otherVars>>

SystemProbe(rc, state) ==
  /\ poll.fn = "wait_for_system_ready" /\ poll.pc = "polling"
  /\ poll' = system_probe(poll, rc, state)
  /\ UNCHANGED <<providerVars, pred, sync, fileVars, installVars, otherVars>>

\* wait_for_networking_ready(executor, timeout_secs=...)
WaitForNetworkingReady(timeout_secs) ==
  /\ PollFree
  /\ poll' = EnterLoop("wait_for_networking_ready", timeout_secs * 2)
  /\ UNCHANGED <<providerVars, pred, sync, fileVars, installVars, otherVars>>

NetworkProbe(rc) ==
  /\ poll.fn = "wait_for_networking_ready" /\ poll.pc = "polling"
  /\ poll' = network_probe(poll, rc)
  /\ UNCHANGED <<providerVars, pred, sync, fileVars, installVars, otherVars>>

NextPoll ==
  \/ \E n \in 0..MaxRetryCount : WaitForSystemReady(n)
  \/ \E rc \in ExitCodes, state \in SystemStates : SystemProbe(rc, state)
  \/ \E t \in 0..MaxTimeoutSecs : WaitForNetworkingReady(t)
  \/ \E rc \in ExitCodes : NetworkProbe(rc)

PollSpec == InitPoll /\ [][NextPoll]_vars

\* ----------------------------------- path predicates and directory sync
InitExec == ProviderIdle /\ ActionsIdle

\* one sync at a time: the next call is made when the last one has ended
\* and its producer is gone
SyncFree ==
  /\ sync.pc \in {"idle", "returned", "raised"}
  /\ sync.producer \notin {"running", "blocked"}

IsTargetFile(rc) ==
  /\ SyncFree
  /\ pred' = is_target_file(rc)
  /\ UNCHANGED <<providerVars, poll, sync, fileVars, installVars, otherVars>>

IsTargetDirectory(rc) ==
  /\ SyncFree
  /\ pred' = is_target_directory(rc)
  /\ UNCHANGED <<providerVars, poll, sync, fileVars, installVars, otherVars>>

DirectorySyncToRemote(deleteArg, rmRc, mkdirRc) ==
  /\ SyncFree
  /\ sync' = directory_sync_to_remote(deleteArg, rmRc, mkdirRc)
  /\ UNCHANGED <<providerVars, poll, pred, fileVars, installVars, otherVars>>

DirectorySyncFromRemote(deleteArg, destExists, rmtreeFails) ==
  /\ SyncFree
  /\ sync' = directory_sync_from_remote(deleteArg, destExists, rmtreeFails)
  /\ UNCHANGED <<providerVars, poll, pred, fileVars, installVars, otherVars>>

ConsumerExit(code) ==
  /\ sync.pc = "waiting" /\ sync.consumer = "running"
  /\ sync' = consumer_exit(sync, code)
  /\ UNCHANGED <<providerVars, poll, pred, fileVars, installVars, otherVars>>

CommunicateReturns ==
  /\ sync.pc = "waiting" /\ sync.consumer = "exited"
  /\ sync' = communicate_returns(sync)
  /\ UNCHANGED <<providerVars, poll, pred, fileVars, installVars, otherVars>>

\* the producer runs on its own, also after the call that started it
ProducerWrites(finishes) ==
  /\ sync.producer = "running"
  /\ sync' = producer_writes(sync, finishes)
  /\ UNCHANGED <<providerVars, poll, pred, fileVars, installVars, otherVars>>

NextExec ==
  \/ \E rc \in ExitCodes : IsTargetFile(rc)
  \/ \E rc \in ExitCodes : IsTargetDirectory(rc)
  \/ \E deleteArg \in BOOLEAN, rmRc \in ExitCodes, mkdirRc \in ExitCodes :
       DirectorySyncToRemote(deleteArg, rmRc, mkdirRc)
  \/ \E deleteArg \in BOOLEAN, destExists \in BOOLEAN, rmtreeFails \in BOOLEAN :
       DirectorySyncFromRemote(deleteArg, destExists, rmtreeFails)
  \/ \E code \in ExitCodes : ConsumerExit(code)
  \/ CommunicateReturns
  \/ \E finishes \in BOOLEAN : ProducerWrites(finishes)

ExecSpec == InitExec /\ [][NextExec]_vars

\* the processes are scheduled: a producer that can write does, and
\* communicate() returns once the consumer has terminated
ExecLiveSpec ==
  /\ ExecSpec
  /\ WF_vars(CommunicateReturns)
  /\ WF_vars(\E finishes \in BOOLEAN : ProducerWrites(finishes))

\* --------------------------------- sync_to / sync_from on host and instance
\* the trees a test writes: a single nested file, several files
NestedTree == [p \in RelPaths |-> IF p = "sub/b.txt" THEN "x" ELSE Missing]

SeveralTree == [p \in RelPaths |-> IF p = "a.txt" THEN "x" ELSE "y"]

OldTree == [p \in RelPaths |-> IF p = "a.txt" THEN "y" ELSE Missing]

SourceNodes == {NoNode, FileNode("x"), DirNode(NestedTree), DirNode(SeveralTree)}

InitSync ==
  /\ ProviderIdle /\ OthersIdle /\ LinuxIdle /\ cf = CreateFileIdle /\ InstallsIdle
  /\ \E s \in SourceNodes, t \in {NoNode, DirNode(OldTree)} :
       host_fs = [p \in {HostSource, HostTarget} |-> IF p = HostSource THEN s ELSE t]
  /\ \E d \in {NoNode, DirNode(OldTree)} : vm_fs = [p \in {VmPath} |-> d]
  /\ xfer = XferIdle
  /\ xprev = XferIdle

\* the caller rewrites the host source path
HostWrite(node) ==
  /\ host_fs' = [host_fs EXCEPT ![HostSource] = node]
  /\ UNCHANGED <<providerVars, poll, pred, sync, vm_fs, xfer, xprev, cf, installVars, otherVars>>

\* instance.sync_to(source=src, destination=/root/project)
SyncTo(rmRc, mkdirRc, code, transferFails) ==
  /\ LET r == sync_to(host_fs[HostSource], vm_fs[VmPath], rmRc, mkdirRc, code, transferFails)
     IN  /\ vm_fs' = [vm_fs EXCEPT ![VmPath] = r.node]
         /\ xfer' = r.xfer
  /\ xprev' = xfer
  /\ UNCHANGED <<providerVars, poll, pred, sync, host_fs, cf, installVars, otherVars>>

\* instance.sync_from(source=/root/project, destination=out)
SyncFrom(rmtreeFails, code, transferFails) ==
  /\ LET r == sync_from(vm_fs[VmPath], host_fs[HostTarget], rmtreeFails, code, transferFails)
     IN  /\ host_fs' = [host_fs EXCEPT ![HostTarget] = r.node]
         /\ xfer' = r.xfer
  /\ xprev' = xfer
  /\ UNCHANGED <<providerVars, poll, pred, sync, vm_fs, cf, installVars, otherVars>>

NextSync ==
  \/ \E node \in SourceNodes : HostWrite(node)
  \/ \E rmRc \in {0, 1}, mkdirRc \in {0, 1}, code \in ExitCodes, transferFails \in BOOLEAN :
       SyncTo(rmRc, mkdirRc, code, transferFails)
  \/ \E rmtreeFails \in BOOLEAN, code \in ExitCodes, transferFails \in BOOLEAN :
       SyncFrom(rmtreeFails, code, transferFails)

SyncSpec == InitSync /\ [][NextSync]_vars

\* ------------------------------------------------- create_file, stepwise
InitFile ==
  /\ ProviderIdle /\ OthersIdle /\ LinuxIdle /\ FilesIdle /\ InstallsIdle
  /\ \E d \in {NoFile, File("y", "0600", RootOwner)} :
       cf = [CreateFileIdle EXCEPT !.dest = d, !.dest0 = d]

CreateFile(request) ==
  /\ cf.pc \in {"idle", "returned", "raised"}
  /\ cf' = create_file(cf, request)
  /\ UNCHANGED <<providerVars, poll, pred, sync, host_fs, vm_fs, xfer, xprev, installVars, otherVars>>

CreateFileStep(rc, cut) ==
  /\ cf.pc \in {"transfer", "chown", "chmod", "mv"}
  /\ cf' = create_file_step(cf, rc, cut)
  /\ UNCHANGED <<providerVars, poll, pred, sync, host_fs, vm_fs, xfer, xprev, installVars, otherVars>>

NextFile ==
  \/ \E request \in Requests : CreateFile(request)
  \/ \E rc \in ExitCodes, cut \in BOOLEAN : CreateFileStep(rc, cut)

FileSpec == InitFile /\ [][NextFile]_vars

\* --------------------------------------- the Multipass client on the backend
InitClient ==
  /\ \E v \in {AbsentVm} \cup ExistingVms(1) : vm = v
  /\ launches = 1
  /\ auto_clean_arg = "omitted"
  /\ auto_clean = ResolveAutoClean("omitted")
  /\ instance = InstanceName
  /\ instance_stop_time_mins = DefaultStopTimeMins
  /\ op = NoOp
  /\ prev = NoOp
  /\ ActionsIdle

\* instance.launch(...)
InstanceLaunch(imageTag) ==
  /\ launches < MaxLaunches
  /\ ~exists(vm)
  /\ vm' = launch(vm, launches + 1, imageTag)
  /\ launches' = launches + 1
  /\ op' = Returned("launch", FALSE, <<Launching(vm, launches + 1)>>, vm, None)
  /\ prev' = op
  /\ UNCHANGED <<auto_clean_arg, auto_clean, instance, instance_stop_time_mins>>
  /\ UNCHANGED actionVars

\* instance.delete(): multipass.delete(purge=True)
InstanceDelete ==
  /\ LET r == multipass_delete(vm)
     IN  /\ vm' = r.vm
         /\ op' = r.op
  /\ prev' = op
  /\ UNCHANGED <<launches, auto_clean_arg, auto_clean, instance, instance_stop_time_mins>>
  /\ UNCHANGED actionVars

\* multipass.info(instance=...)
MultipassInfo(fault) ==
  /\ op' = multipass_info(vm, fault)
  /\ prev' = op
  /\ UNCHANGED <<vm, launches, auto_clean_arg, auto_clean, instance, instance_stop_time_mins>>
  /\ UNCHANGED actionVars

NextClient ==
  \/ \E imageTag \in ImageTags : InstanceLaunch(imageTag)
  \/ InstanceDelete
  \/ \E fault \in BOOLEAN : MultipassInfo(fault)
  \/ InstanceStart
  \/ InstanceStop

ClientSpec == InitClient /\ [][NextClient]_vars

\* ------------------------------------------------------------ installer
InitInstall ==
  /\ ProviderIdle /\ OthersIdle /\ LinuxIdle /\ FilesIdle /\ cf = CreateFileIdle
  /\ \E h \in {NotInstalled} \cup {Installation(v, d) : v \in Versions, d \in BOOLEAN} :
       installed = h
  /\ install_op = InstallIdle
  /\ prompt = PromptIdle

\* MultipassInstaller(platform=...).install() with `stdin` typed ahead
Install(platform, stdin, cmdOk, brought) ==
  /\ LET r == install(installed, platform, stdin, cmdOk, brought)
     IN  /\ installed' = r.host
         /\ install_op' = r.op
  /\ UNCHANGED <<providerVars, poll, pred, sync, fileVars, prompt, otherVars>>

\* the host's Multipass is removed (snap remove multipass) before a new
\* installer is made
Uninstall ==
  /\ installed.present
  /\ installed' = NotInstalled
  /\ install_op' = InstallIdle
  /\ UNCHANGED <<providerVars, poll, pred, sync, fileVars, prompt, otherVars>>

NextInstall ==
  \/ \E platform \in Platforms, stdin \in Answers, cmdOk \in BOOLEAN,
        brought \in {NotInstalled} \cup {Installation(v, d) : v \in Versions, d \in BOOLEAN} :
       Install(platform, stdin, cmdOk, brought)
  \/ Uninstall

InstallSpec == InitInstall /\ [][NextInstall]_vars

\* --------------------------------------------------------------- prompt
InitPrompt == ProviderIdle /\ ActionsIdle

InputPromptBool(default, retry_invalid) ==
  /\ prompt.pc \in {"idle", "returned"}
  /\ prompt' = input_prompt_bool(default, retry_invalid)
  /\ UNCHANGED <<providerVars, poll, pred, sync, fileVars, installed, install_op, otherVars>>

\* the user answers the prompt
Answer(typed) ==
  /\ prompt.pc = "asking"
  /\ Len(prompt.typed) < MaxAsks
  /\ prompt' = input_prompt_bool_ask(prompt, typed)
  /\ UNCHANGED <<providerVars, poll, pred, sync, fileVars, installed, install_op, otherVars>>

NextPrompt ==
  \/ \E default \in BOOLEAN, retry_invalid \in BOOLEAN : InputPromptBool(default, retry_invalid)
  \/ \E typed \in Responses : Answer(typed)

PromptSpec == InitPrompt /\ [][NextPrompt]_vars

\* ------------------------------------ create_file, two calls at a time
EarlierIdle == LinuxIdle /\ FilesIdle /\ cf = CreateFileIdle /\ InstallsIdle

InitRace == ProviderIdle /\ EarlierIdle /\ OthersIdle

\* caller k calls create_file for a destination
CreateFileEnter(k, destination) ==
  /\ race.callers[k].pc = "idle"
  /\ race' = [race EXCEPT !.callers[k] = create_file_enter(race.callers[k], destination)]
  /\ UNCHANGED <<providerVars, poll, pred, sync, fileVars, installVars, legacy, tio>>

\* the call of caller k takes its next step
CreateFileRacing(k, rc, cut) ==
  /\ race.callers[k].pc \in {"transfer", "chown", "chmod", "mv"}
  /\ LET r == create_file_racing(race.files, race.callers[k], rc, cut)
     IN  race' = [race EXCEPT !.callers[k] = r.caller, !.files = r.files,
                              !.order = Append(race.order, k)]
  /\ UNCHANGED <<providerVars, poll, pred, sync, fileVars, installVars, legacy, tio>>

NextRace ==
  \/ \E k \in Callers, destination \in Destinations : CreateFileEnter(k, destination)
  \/ \E k \in Callers, rc \in ExitCodes, cut \in BOOLEAN : CreateFileRacing(k, rc, cut)

RaceSpec == InitRace /\ [][NextRace]_vars

\* --------------------------------------- Multipass(Provider), mounts
InitLegacy == ProviderIdle /\ EarlierIdle /\ OthersIdle

LegacyCreate ==
  /\ legacy' = legacy_create(legacy)
  /\ UNCHANGED <<providerVars, poll, pred, sync, fileVars, installVars, race, tio>>

LegacyMount(target) ==
  /\ legacy' = _mount(legacy, target)
  /\ UNCHANGED <<providerVars, poll, pred, sync, fileVars, installVars, race, tio>>

LegacyUmount(target) ==
  /\ legacy' = _umount(legacy, target)
  /\ UNCHANGED <<providerVars, poll, pred, sync, fileVars, installVars, race, tio>>

LegacyStart ==
  /\ legacy' = _start(legacy)
  /\ UNCHANGED <<providerVars, poll, pred, sync, fileVars, installVars, race, tio>>

LegacyDestroy(is_ephemeral) ==
  /\ legacy' = destroy(legacy, is_ephemeral)
  /\ UNCHANGED <<providerVars, poll, pred, sync, fileVars, installVars, race, tio>>

NextLegacy ==
  \/ LegacyCreate
  \/ \E target \in Targets : LegacyMount(target)
  \/ \E target \in Targets : LegacyUmount(target)
  \/ LegacyStart
  \/ \E is_ephemeral \in BOOLEAN : LegacyDestroy(is_ephemeral)

LegacySpec == InitLegacy /\ [][NextLegacy]_vars

\* --------------------------------------- Multipass.transfer_from_io
InitTransfer == ProviderIdle /\ EarlierIdle /\ OthersIdle

TransferFromIo(stream, bufsize) ==
  /\ tio.pc \in {"idle", "returned", "raised"}
  /\ tio' = transfer_from_io(stream, bufsize)
  /\ UNCHANGED <<providerVars, poll, pred, sync, fileVars, installVars, race, legacy>>

\* source.read(bufsize) returns n bytes: at most bufsize, at most what is
\* left, and none only at the end of the stream
TransferRead(n) ==
  /\ tio.pc = "reading"
  /\ n <= Min(tio.bufsize, Len(tio.rest))
  /\ n = 0 => tio.rest = <<>>
  /\ tio' = transfer_from_io_read(tio, n)
  /\ UNCHANGED <<providerVars, poll, pred, sync, fileVars, installVars, race, legacy>>

TransferTimeout ==
  /\ tio.pc = "waiting"
  /\ tio.timeouts < MaxCommunicateTimeouts
  /\ tio' = transfer_from_io_timeout(tio)
  /\ UNCHANGED <<providerVars, poll, pred, sync, fileVars, installVars, race, legacy>>

TransferExit(returncode) ==
  /\ tio.pc = "waiting"
  /\ tio' = transfer_from_io_exit(tio, returncode)
  /\ UNCHANGED <<providerVars, poll, pred, sync, fileVars, installVars, race, legacy>>

NextTransfer ==
  \/ \E stream \in Streams, bufsize \in 1..MaxBufsize : TransferFromIo(stream, bufsize)
  \/ \E n \in 0..MaxBufsize : TransferRead(n)
  \/ TransferTimeout
  \/ \E returncode \in ExitCodes : TransferExit(returncode)

TransferSpec == InitTransfer /\ [][NextTransfer]_vars




\* =============================================================== properties
\* the negotiator finds the instance incompatible (whatever the later write does)
Incompatible(v) == image_setup(v, FALSE).error = "CompatibilityError"

Compatible(v) == image_setup(v, FALSE).error = "none"

IsSetup == op.name = "setup"

IsTeardown == op.name = "teardown"

\* C1: setup() with auto_clean=False on an existing instance whose
\* compatibility check raises CompatibilityError re-raises it and issues
\* neither a delete nor a launch; the instance is left as it was.
C1_NoAutoCleanPropagates ==
  (IsSetup /\ ~auto_clean /\ exists(op.entry) /\ Incompatible(op.entry))
    => /\ op.outcome = "raised"
       /\ op.error = "CompatibilityError"
       /\ Count(op.calls, "delete") = 0
       /\ Count(op.calls, "launch") = 0
       /\ vm = op.entry

C1_Witness ==
  /\ IsSetup /\ ~auto_clean /\ exists(op.entry) /\ Incompatible(op.entry)
  /\ op.error = "CompatibilityError"
  /\ op.entry.tag = OtherTag

\* C2: a provider constructed without an auto_clean argument whose setup()
\* finds an existing instance tagged craft-buildd-image-vX (v0 expected)
\* raises CompatibilityError with the tag-mismatch reason.
C2_DefaultProviderRaises ==
  (IsSetup /\ auto_clean_arg = "omitted"
     /\ op.entry.status = "Running" /\ op.entry.tag = "craft-buildd-image-vX")
    => /\ op.outcome = "raised"
       /\ op.error = "CompatibilityError"
       /\ op.reason = "Expected image compatibility tag 'craft-buildd-image-v0', found 'craft-buildd-image-vX'"

C4_ReplacementCarriesExpectedTag ==
  (IsSetup /\ op.outcome = "returned" /\ auto_clean
     /\ op.entry.status = "Running" /\ op.entry.tag = OtherTag)
    => vm.tag = ExpectedTag

\* C5: setup() on an existing instance whose compatibility check passes, in
\* particular a second setup() right after a successful first one, issues no
\* launch and no delete and returns the same instance.
C5_ReuseWithoutLaunch ==
  /\ (IsSetup /\ exists(op.entry) /\ Compatible(op.entry) /\ op.error # "CommandError")
       => /\ op.outcome = "returned"
          /\ Count(op.calls, "launch") = 0 /\ Count(op.calls, "delete") = 0
          /\ vm.id = op.entry.id
  /\ (IsSetup /\ prev.name = "setup" /\ prev.outcome = "returned" /\ op.error # "CommandError")
       => /\ op.outcome = "returned"
          /\ Count(op.calls, "launch") = 0 /\ Count(op.calls, "delete") = 0
          /\ vm.id = op.entry.id

\* C6: within one setup() a delete is issued only if the instance existed at
\* entry, the negotiator raised CompatibilityError and auto_clean is on; any
\* other negotiator failure propagates with no delete; an instance launched
\* in the call is never deleted by it.
C6_DeleteOnlyByAutoClean ==
  IsSetup =>
    /\ Count(op.calls, "delete") > 0
         => (exists(op.entry) /\ Incompatible(op.entry) /\ auto_clean)
    /\ op.error = "CommandError"
         => (op.outcome = "raised" /\ Count(op.calls, "delete") = 0 /\ vm = op.entry)
    /\ \A i \in 1..Len(op.calls) : op.calls[i].cmd = "delete" =>
         /\ op.calls[i].id = op.entry.id
         /\ \A j \in 1..Len(op.calls) : op.calls[j].cmd = "launch" => i < j
    /\ (op.outcome = "returned" /\ Count(op.calls, "launch") = 1)
         => (exists(vm) /\ vm.id = op.calls[Len(op.calls)].id)

C6_Witness ==
  /\ IsSetup /\ auto_clean /\ exists(op.entry)
  /\ op.error = "CommandError" /\ op.outcome = "raised"
  /\ exists(vm)

\* C7: teardown(clean=True) right after teardown(clean=True) returns without
\* issuing a stop or a delete, and neither call raises; teardown on a
\* provider without an instance, or whose instance does not exist, is a no-op.
C7_TeardownIdempotent ==
  /\ (IsTeardown /\ op.clean /\ prev.name = "teardown" /\ prev.clean)
       => /\ prev.outcome = "returned" /\ op.outcome = "returned"
          /\ op.calls = <<>>
          /\ vm = op.entry
  /\ (IsTeardown /\ (instance = None \/ ~exists(op.entry)))
       => /\ op.outcome = "returned"
          /\ op.calls = <<>>
          /\ vm = op.entry

C7_Witness ==
  /\ IsTeardown /\ op.clean /\ prev.name = "teardown" /\ prev.clean
  /\ Count(prev.calls, "delete") = 1
  /\ op.calls = <<>>

\* C8: teardown(clean=False) on a running instance stops it and does not
\* delete it; a teardown removes the instance only when clean is set.
C8_TeardownStopsOnly ==
  IsTeardown =>
    /\ (~op.clean /\ instance # None /\ op.entry.status = "Running")
         => /\ Cmds(op.calls) = <<"stop">>
            /\ vm = [op.entry EXCEPT !.status = "Stopped"]
    /\ ~op.clean => (Count(op.calls, "delete") = 0 /\ exists(vm) = exists(op.entry))
    /\ (exists(op.entry) /\ ~exists(vm)) => op.clean
    /\ (op.clean /\ instance # None) => ~exists(vm)

C8_Witness ==
  /\ IsTeardown /\ ~op.clean /\ instance # None
  /\ op.entry.status = "Running" /\ vm.status = "Stopped"

\* C9: whenever setup() runs the negotiator against an existing instance the
\* instance is Running: a stopped instance is started first.
C9_NegotiatorRunsOnRunning ==
  IsSetup =>
    \A i \in 1..Len(op.calls) : op.calls[i].cmd = "negotiate" => op.calls[i].on = "Running"

C11_LaunchThenReadyThenNegotiate ==
  (IsSetup /\ op.outcome = "returned" /\ Count(op.calls, "launch") = 1)
    => \E i \in 1..Len(op.calls) :
         /\ op.calls[i].cmd = "launch"
         /\ Len(op.calls) = i + 2
         /\ op.calls[i + 1].cmd = "wait_for_system_ready"
         /\ op.calls[i + 2].cmd = "negotiate"
         /\ op.calls[i + 2].id = op.calls[i].id

\* C12: setup() attempts the launch at most once per call; a refused launch
\* propagates as the launch error, and the launch is the last step of the call.
C12_LaunchFailureFatal ==
  IsSetup =>
    /\ Count(op.calls, "launch") <= 1
    /\ op.error = "MultipassError" =>
         /\ op.outcome = "raised"
         /\ op.reason = LaunchReason
         /\ Len(op.calls) >= 1
         /\ op.calls[Len(op.calls)].cmd = "launch"
         /\ ~exists(vm)

C12_Witness ==
  /\ IsSetup /\ op.outcome = "raised" /\ op.error = "MultipassError"
  /\ Count(op.calls, "launch") = 1
  /\ ~exists(vm)

\* the marker of an existing instance cannot be read: no file, or the read
\* command exits nonzero
Unreadable(v) == exists(v) /\ (v.tag = NoTag \/ ~ExecSucceeds(v))

Reused == IsSetup /\ op.outcome = "returned" /\ exists(op.entry) /\ vm.id = op.entry.id

\* C14: an existing instance is reused only if its tag equals the expected
\* tag and its VERSION_ID equals the expected version; with a matching tag
\* and VERSION_ID 20.10 against 16.04, setup(auto_clean=False) raises
\* CompatibilityError with the OS-version reason.
C14_BothGatesForReuse ==
  /\ Reused => (op.entry.tag = ExpectedTag /\ op.entry.os = ExpectedOs)
  /\ (IsSetup /\ ~auto_clean /\ op.entry.status = "Running"
        /\ op.entry.tag = ExpectedTag /\ op.entry.os = "20.10")
       => /\ op.outcome = "raised" /\ op.error = "CompatibilityError"
          /\ op.reason = "Expected OS version '16.04', found '20.10'"

C14_Witness ==
  /\ IsSetup /\ ~auto_clean /\ op.entry.status = "Running"
  /\ op.entry.tag = ExpectedTag /\ op.entry.os = "20.10"
  /\ op.error = "CompatibilityError"

\* C15: the negotiator reports the first failing gate only: with both the
\* tag and the OS version mismatching the reason is the tag mismatch, and
\* every reason names one gate.
C15_FirstFailingGateReported ==
  (IsSetup /\ op.error = "CompatibilityError") =>
    /\ op.reason \in {NoMarkerReason,
                      TagReason(ExpectedTag, op.entry.tag),
                      OsReason(ExpectedOs, op.entry.os)}
    /\ (op.entry.status = "Running" /\ op.entry.tag \in Tags \ {ExpectedTag}
          /\ op.entry.os # ExpectedOs)
         => op.reason = TagReason(ExpectedTag, op.entry.tag)

C15_Witness ==
  /\ IsSetup /\ op.error = "CompatibilityError"
  /\ op.entry.status = "Running"
  /\ op.entry.tag = OtherTag /\ op.entry.os = OtherOs


\* ------------------------------------------------ properties of the pollers
IsSystemWait == poll.fn = "wait_for_system_ready"

IsNetworkWait == poll.fn = "wait_for_networking_ready"

NeverReady == \A i \in 1..Len(poll.probes) : poll.probes[i].state \notin ReadyStates

\* C16: wait_for_system_ready against a backend that never reports running
\* or degraded issues exactly retry_count probes and then returns without
\* raising, with a warning, whatever the exit codes and status strings.
C16_SystemWaitBounded ==
  IsSystemWait =>
    /\ poll.pc # "raised"
    /\ Len(poll.probes) <= poll.budget
    /\ NeverReady =>
         /\ poll.pc = "returned" <=> Len(poll.probes) = poll.budget
         /\ poll.pc = "returned" => poll.warned

C16_Witness ==
  /\ IsSystemWait /\ NeverReady
  /\ poll.budget = MaxRetryCount /\ Len(poll.probes) = poll.budget
  /\ poll.pc = "returned" /\ poll.warned
  /\ \E i \in 1..Len(poll.probes) : poll.probes[i].rc # 0

\* C17: wait_for_system_ready stops at the first probe that reports running
\* or degraded, whatever the probe's exit code; no probe follows it.
C17_ReadyStateStopsPolling ==
  IsSystemWait =>
    /\ \A i \in 1..Len(poll.probes) :
         poll.probes[i].state \in ReadyStates => i = Len(poll.probes)
    /\ (Len(poll.probes) > 0 /\ poll.probes[Len(poll.probes)].state \in ReadyStates)
         => (poll.pc = "returned" /\ ~poll.warned)

\* C18: wait_for_networking_ready always returns normally: it stops at the
\* first probe that exits 0, and when every probe exits nonzero it returns
\* after exactly 2 * timeout_secs probes without raising.
C18_NetworkWaitReturns ==
  IsNetworkWait =>
    /\ poll.pc # "raised"
    /\ \A i \in 1..Len(poll.probes) : poll.probes[i].rc = 0 => i = Len(poll.probes)
    /\ (poll.pc = "returned" /\ \A i \in 1..Len(poll.probes) : poll.probes[i].rc # 0)
         => Len(poll.probes) = poll.budget

\* C19: is_target_file and is_target_directory never raise: they return
\* True exactly when the test command exits 0 and False for every nonzero
\* exit code.
C19_PredicatesNeverRaise ==
  pred.fn # "none" =>
    /\ pred.outcome = "returned"
    /\ pred.value = (pred.rc = 0)

\* C20: a directory sync returns only after the consumer has terminated,
\* and a nonzero exit code of the consumer is reported to the caller as a
\* failure of the sync.
C20_ConsumerExitCodeIsResult ==
  sync.fn # "none" =>
    /\ sync.pc = "returned" => sync.consumer = "exited"
    /\ (sync.consumer = "exited" /\ sync.exit_code # 0 /\ sync.pc # "waiting")
         => sync.pc = "raised"

\* ---------------------------------------------------------- sync on paths
IsSync == xfer.fn \in {"sync_to", "sync_from"}

\* the destination of the last sync call as it is now
Destination == IF xfer.fn = "sync_to" THEN vm_fs[VmPath] ELSE host_fs[HostTarget]

MutatingSteps ==
  {"rm", "rmtree", "mkdir", "mkdir_parent", "transfer", "popen_producer", "popen_consumer"}

\* C21: sync_to and sync_from on a source path that is neither a file nor a
\* directory raise FileNotFoundError before any mutation: no directory is
\* made or removed, no transfer or archive process is started, and the
\* destination is what it was.
C21_MissingSourceRaisesNotFound ==
  (IsSync /\ xfer.source.kind = "none") =>
    /\ xfer.outcome = "raised"
    /\ xfer.error = "FileNotFoundError"
    /\ \A i \in 1..Len(xfer.steps) : xfer.steps[i] \notin MutatingSteps
    /\ Destination = xfer.before

\* C22: a sync_to of a host directory into the instance followed by a
\* sync_from of that instance directory into a fresh host directory, with
\* no command or process failing, leaves the fresh directory with the
\* source's relative paths and contents.
C22_SyncRoundTrip ==
  (/\ xprev.fn = "sync_to" /\ xprev.outcome = "returned" /\ ~xprev.faulted
   /\ xprev.source.kind = "dir"
   /\ xfer.fn = "sync_from" /\ ~xfer.faulted
   /\ xfer.source = DirNode(xprev.source.tree)
   /\ xfer.before.kind = "none")
    => /\ xfer.outcome = "returned"
       /\ host_fs[HostTarget] = DirNode(xprev.source.tree)

\* ------------------------------------------------------------ create_file
\* the file create_file was asked to make
Requested == File(cf.request.content, cf.request.mode, cf.request.owner)

\* C23: create_file changes the destination only by the final mv, after
\* transfer, chown and chmod have succeeded in that order, and then the
\* destination is the requested file; a call that raised left the
\* destination as it was.
C23_DestinationOnlyByFinalMove ==
  /\ cf.dest # cf.dest0 =>
       /\ cf.pc = "returned"
       /\ cf.done = CreateFileSteps
       /\ cf.dest = Requested
  /\ cf.pc = "raised" => cf.dest = cf.dest0
  /\ cf.pc = "returned" => cf.dest = Requested

C23_Witness ==
  /\ cf.pc = "returned"
  /\ cf.dest0 # NoFile
  /\ cf.dest # cf.dest0
  /\ cf.dest = Requested


\* ------------------------------------------------------- Multipass client
\* C24: delete (purge) of an instance that does not exist is not an error:
\* a delete right after a successful delete succeeds too and leaves the
\* backend as it was.
C24_DeleteIdempotent ==
  (op.name = "delete" /\ prev.name = "delete" /\ prev.outcome = "returned")
    => /\ op.outcome = "returned"
       /\ vm = op.entry

IsInfo == op.name = "info"

\* the failed info query said "does not exist"
NotFoundAnswer(call) == call.rc # 0 /\ Mentions(call.stdout, "does not exist")

\* C25: Multipass.info returns None exactly when the failed query reports
\* "does not exist", raises MultipassError on every other failed query and
\* returns the backend's output on success; None is never returned for an
\* instance the backend has.
C25_InfoNoneOnlyOnNotFound ==
  IsInfo =>
    LET call == op.calls[1]
    IN  /\ (op.outcome = "returned" /\ op.ret = None) <=> NotFoundAnswer(call)
        /\ (call.rc # 0 /\ ~NotFoundAnswer(call))
             => (op.outcome = "raised" /\ op.error = "MultipassError")
        /\ call.rc = 0 => (op.outcome = "returned" /\ op.ret = Text(call.stdout))
        /\ (op.outcome = "returned" /\ op.ret = None) => ~exists(op.entry)

C25_Witness ==
  /\ IsInfo /\ op.outcome = "returned" /\ op.ret = None
  /\ prev.name = "delete" /\ prev.outcome = "returned"


\* C26: teardown of a running instance asks the backend for a delayed stop
\* carrying instance_stop_time_mins when that is positive and for an
\* immediate stop when it is zero.
C26_TeardownStopHonoursDelay ==
  (IsTeardown /\ Count(op.calls, "stop") = 1) =>
    LET request == op.calls[1].request
    IN  IF instance_stop_time_mins > 0
          THEN request.delayed /\ request.time = instance_stop_time_mins
          ELSE ~request.delayed

\* C27: sync_to and sync_from follow cp -r rules: a directory is copied
\* recursively, and an existing destination directory is copied into, not
\* removed or replaced: what it held and the source does not bring stays.
C27_CopyIntoExistingDestination ==
  (/\ IsSync /\ xfer.outcome = "returned" /\ ~xfer.faulted
   /\ xfer.source.kind = "dir" /\ xfer.before.kind = "dir")
    => /\ Destination.kind = "dir"
       /\ \A p \in RelPaths :
            /\ xfer.source.tree[p] # Missing => Destination.tree[p] = xfer.source.tree[p]
            /\ (xfer.source.tree[p] = Missing /\ xfer.before.tree[p] # Missing)
                 => Destination.tree[p] = xfer.before.tree[p]

\* -------------------------------------------------------------- installer
Installing == install_op.outcome # "none"

\* major.minor is at least 1.5
VersionSupported(version) == version[1] > 1 \/ (version[1] = 1 /\ version[2] >= 5)

InstallFailed ==
  /\ install_op.outcome = "raised"
  /\ install_op.error = "MultipassInstallerError"
  /\ install_op.ret = None

\* install() returned a path: an executable is there, the daemon answered
\* and the version is supported
InstallReturnedRealPath ==
  /\ install_op.ret = MultipassPath
  /\ installed.present
  /\ installed.daemon
  /\ VersionSupported(installed.version)
  /\ is_installed(installed)

PlatformUnsupported == InstallCommand(install_op.platform) = "none"

CommandFailed == install_op.commands # <<>> /\ ~install_op.cmd_ok

\* C28 as stated: install() returns a path only for an executable that is
\* there and passed the version check, and raises MultipassInstallerError on
\* an unsupported platform, a failed installation command, a binary still
\* missing after installation, or an unsupported version.
C28_InstallReturnsCheckedPath ==
  Installing =>
    /\ install_op.outcome = "returned" => InstallReturnedRealPath
    /\ PlatformUnsupported => InstallFailed
    /\ CommandFailed => InstallFailed
    /\ ~installed.present => InstallFailed
    /\ (installed.present /\ ~VersionSupported(installed.version)) => InstallFailed

\* C28 amended: the platform only matters when Multipass has to be
\* installed; with Multipass already on the host install() on any platform
\* goes straight to finding the executable and checking its version.
C28_InstallReturnsCheckedPathWhenNeeded ==
  Installing =>
    /\ install_op.outcome = "returned" => InstallReturnedRealPath
    /\ (PlatformUnsupported /\ ~install_op.was_installed) => InstallFailed
    /\ CommandFailed => InstallFailed
    /\ ~installed.present => InstallFailed
    /\ (installed.present /\ ~VersionSupported(installed.version)) => InstallFailed

\* an installation on a supported platform that returned the path
C28_Witness ==
  /\ install_op.outcome = "returned"
  /\ ~install_op.was_installed
  /\ install_op.commands # <<>>
  /\ InstallReturnedRealPath


\* C29: with Multipass not installed, an answer of n, N, no or NO makes
\* install() raise "Failed to install Multipass: user declined to install"
\* without running an installation command; an answer of y or YES lets the
\* installation proceed.
C29_DeclinedInstallRaises ==
  (Installing /\ ~install_op.was_installed) =>
    /\ install_op.stdin \in NoAnswers =>
         /\ InstallFailed
         /\ InstallerErrorStr(install_op.reason)
              = "Failed to install Multipass: user declined to install"
         /\ install_op.commands = <<>>
    /\ (install_op.stdin \in YesAnswers /\ ~PlatformUnsupported) =>
         install_op.commands = <<InstallCommand(install_op.platform)>>

\* ----------------------------------------------------------------- prompt
\* C30: input_prompt_bool returns `default` on an empty response, True on
\* Y, YE or YES in any letter case and False on N or NO.
C30_PromptDefaultOnEmpty ==
  prompt.pc = "returned" =>
    LET last == prompt.typed[Len(prompt.typed)]
    IN  /\ last = "" => prompt.ret = prompt.default
        /\ upper(last) \in {"Y", "YE", "YES"} => prompt.ret = TRUE
        /\ upper(last) \in {"N", "NO"} => prompt.ret = FALSE

\* C31: the version gate accepts exactly the versions whose major.minor is
\* at least 1.5 (1.5, 1.9, 1.10, 2.0, ...) and raises
\* MultipassInstallerError for every lower one: whenever install() got as
\* far as checking the version of an answering Multipass, it returned if and
\* only if that version is at least 1.5.
C31_VersionGateAtLeast_1_5 ==
  (Installing /\ installed.present /\ installed.daemon) =>
    /\ VersionSupported(installed.version) => install_op.outcome = "returned"
    /\ ~VersionSupported(installed.version) =>
         /\ InstallFailed
         /\ install_op.reason = "version unsupported (must be >= 1.5)"

\* ------------------------------------------------- directory sync, steps
\* step a comes before step b in the steps a call took
Before(steps, a, b) ==
  \E i, j \in 1..Len(steps) : i < j /\ steps[i] = a /\ steps[j] = b

Took(steps, a) == \E i \in 1..Len(steps) : steps[i] = a

\* the call started both processes
StartedBoth == sync.pc \in {"waiting", "returned"}

\* C32: in a directory sync this process closes its copy of the producer's
\* output handle after both processes have been started and before it
\* blocks on the consumer; so when the consumer exits early the producer
\* gets a broken pipe and terminates rather than blocking forever, and the
\* sync call itself returns.
C32_ProducerEndsWhenConsumerExits ==
  /\ [](StartedBoth =>
          /\ Before(sync.steps, "popen_producer", "close_stdout")
          /\ Before(sync.steps, "popen_consumer", "close_stdout")
          /\ Took(sync.steps, "communicate") => Before(sync.steps, "close_stdout", "communicate")
          /\ sync.handle = "closed")
  /\ [](sync.producer # "blocked")
  /\ (sync.consumer = "exited" /\ sync.producer = "running")
       ~> (sync.producer \in {"sigpipe", "done"})
  /\ (sync.pc = "waiting" /\ sync.consumer = "exited") ~> (sync.pc = "returned")

\* the consumer failed, the producer was ended by the broken pipe and the
\* call returned
C32_Witness ==
  /\ sync.pc = "returned"
  /\ sync.exit_code # 0
  /\ sync.producer = "sigpipe"
  /\ Took(sync.steps, "communicate")

\* how many times the call tried to remove the destination
Removals == Cardinality({i \in 1..Len(sync.steps) : sync.steps[i] \in {"rm", "rmtree"}})

\* C33: if removing the destination tree fails during a sync with delete
\* set, the sync fails at once: the removal is attempted exactly once, and
\* afterwards no destination directory is made and no producer or consumer
\* process is started.
C33_FailedRemovalIsFatal ==
  sync.removal_failed =>
    /\ sync.delete
    /\ sync.pc = "raised"
    /\ Removals = 1
    /\ ~Took(sync.steps, "mkdir")
    /\ ~Took(sync.steps, "popen_producer")
    /\ ~Took(sync.steps, "popen_consumer")
    /\ sync.producer = "none" /\ sync.consumer = "none"

\* rm -rf failed in the instance during directory_sync_to_remote
C33_Witness ==
  /\ sync.fn = "directory_sync_to_remote"
  /\ sync.removal_failed
  /\ sync.error = "CalledProcessError"
  /\ sync.steps = <<"rm">>

\* C37: directory_sync_from_remote with delete=False onto a host destination
\* that already exists fails while making the destination, before a producer
\* or consumer is started and with nothing done to what the destination
\* holds; with delete=True the destination is removed first and the sync
\* goes on.
C37_ExistingDestinationNeedsDelete ==
  (sync.fn = "directory_sync_from_remote" /\ sync.dest_existed) =>
    /\ ~sync.delete =>
         /\ sync.pc = "raised"
         /\ sync.error = "FileExistsError"
         /\ sync.steps = <<"mkdir">>
         /\ sync.producer = "none" /\ sync.consumer = "none"
    /\ (sync.delete /\ ~sync.removal_failed) =>
         /\ StartedBoth
         /\ Removals = 1
         /\ Before(sync.steps, "rmtree", "mkdir")
         /\ Before(sync.steps, "mkdir", "popen_producer")
         /\ Before(sync.steps, "mkdir", "popen_consumer")

\* a sync from the instance without delete met an existing destination
C37_Witness ==
  /\ sync.fn = "directory_sync_from_remote"
  /\ sync.dest_existed
  /\ ~sync.delete
  /\ sync.error = "FileExistsError"

C38_CleanTeardownStopsBeforeDelete ==
  /\ (IsTeardown /\ op.clean /\ instance # None /\ op.entry.status = "Running") =>
       /\ Cmds(op.calls) = <<"stop", "delete">>
       /\ op.calls[1].on = "Running"
       /\ op.calls[2].on = "Stopped"
  /\ \A i \in 1..Len(op.calls) :
       (op.calls[i].cmd = "delete" /\ op.calls[i].on = "Running")
         => (IsSetup /\ auto_clean /\ Incompatible(op.entry))

\* a clean teardown of a running instance
C38_Witness ==
  /\ IsTeardown /\ op.clean
  /\ op.entry.status = "Running"
  /\ Cmds(op.calls) = <<"stop", "delete">>
  /\ ~exists(vm)

\* ------------------------------------ create_file, two calls at a time
Entered(k) == race.callers[k].pc # "idle"

Ended(k) == race.callers[k].pc \in {"returned", "raised"}

BothEntered == \A k \in Callers : Entered(k)

BothEnded == \A k \in Callers : Ended(k)

SameDestination == race.callers["A"].destination = race.callers["B"].destination

\* no command of either call was made to fail by the environment
RaceUnfaulted == \A k \in Callers : ~race.callers[k].faulted

\* a step of one call ran between two steps of the other
Interleaved ==
  \E i, j, l \in 1..Len(race.order) :
    i < j /\ j < l /\ race.order[i] = race.order[l] /\ race.order[j] # race.order[i]

\* the file caller k asked for
RequestedBy(k) ==
  File(race.callers[k].request.content, race.callers[k].request.mode,
       race.callers[k].request.owner)

\* the call of k failed on a staging file that another call had moved away
Starved(k) ==
  /\ race.callers[k].pc = "raised"
  /\ race.callers[k].error = "CalledProcessError"
  /\ race.callers[k].starved

\* the file now at the destination of caller k
AtDestination(k) == race.files[race.callers[k].destination]

\* C35: two create_file calls for the same destination on one instance share
\* one staging path and race when they interleave: with no command failing
\* on its own, interleaved calls end with one of them failing because the
\* other moved the shared staging file (and the destination may hold a file
\* neither asked for), while calls that do not interleave both return.
C35_SameDestinationRaces ==
  (BothEntered /\ SameDestination) =>
    /\ tmp_file_path(race.callers["A"].destination)
         = tmp_file_path(race.callers["B"].destination)
    /\ (BothEnded /\ RaceUnfaulted /\ Interleaved) => \E k \in Callers : Starved(k)
    /\ (BothEnded /\ RaceUnfaulted /\ ~Interleaved) =>
         /\ \A k \in Callers : race.callers[k].pc = "returned"
         /\ \E k \in Callers : AtDestination(k) = RequestedBy(k)

\* an interleaving after which the destination holds what neither call
\* asked for and one call has failed on the missing staging file
C35_Witness ==
  /\ BothEnded /\ SameDestination /\ RaceUnfaulted /\ Interleaved
  /\ \E k \in Callers : Starved(k)
  /\ AtDestination("A") # NoFile
  /\ \A k \in Callers : AtDestination("A") # RequestedBy(k)

\* C36: create_file calls for two different destination paths always use
\* different staging paths, so interleaving them never lets the content,
\* mode or owner of one call end up at the destination of the other (and
\* neither call loses its staging file to the other).
C36_DifferentDestinationsApart ==
  (BothEntered /\ ~SameDestination) =>
    /\ tmp_file_path(race.callers["A"].destination)
         # tmp_file_path(race.callers["B"].destination)
    /\ \A k \in Callers : ~Starved(k)
    /\ \A k \in Callers :
         race.callers[k].pc = "returned" => AtDestination(k) = RequestedBy(k)

\* ------------------------------------------ Multipass(Provider), mounts
\* C39: _mount issues a backend mount command only when the target is not
\* mounted in the instance at that moment, and a _mount of a target right
\* after a _mount of the same target that succeeded does nothing.
C39_MountOnlyWhenNotMounted ==
  legacy.op.name = "_mount" =>
    /\ \A i \in 1..Len(legacy.op.calls) :
         legacy.op.calls[i].cmd = "mount" => ~legacy.op.calls[i].mounted
    /\ (/\ legacy.prev.name = "_mount"
        /\ legacy.prev.outcome = "returned"
        /\ legacy.prev.target = legacy.op.target)
         => (legacy.op.calls = <<>> /\ legacy.op.outcome = "returned")

\* ------------------------------------------ Multipass.transfer_from_io
\* C40: transfer_from_io delivers every byte of the source, in order, to the
\* transfer process whatever the sizes of the reads, returns only after the
\* process has exited with code 0 and raises MultipassError when it exits
\* with any other code.
C40_TransferDeliversAllBytes ==
  /\ tio.pc \in {"waiting", "returned", "raised"} => tio.written = tio.stream
  /\ tio.pc = "returned" => tio.returncode = 0
  /\ tio.pc = "raised" => (tio.returncode # 0 /\ tio.error = "MultipassError")

====
